---- MODULE Spec2Model ----
(***************************************************************************)
(* zevalizer: the range algebra, the range cache store and the             *)
(* cache-backed fetcher (package internal/cache).                          *)
(*                                                                         *)
(* Time is a count of slots since local midnight of day 0; a day has       *)
(* SlotsPerDay slots.  All times are local-zone times.                     *)
(***************************************************************************)
EXTENDS Integers, Sequences, FiniteSets, TLC

VARIABLES alg, now, cache, disk, call, api, src, cc, fs, an

(***************************************************************************)
(* Bounds                                                                  *)
(***************************************************************************)
MaxDay == 3
MinStep == 6
MaxStep == 10
MaxLen == 2
Chunks == 2
HorizonDay == 2
\* Analyze calls on one analyzer
MaxCalls == 2

Slots == {0, 1}
SlotsPerDay == Cardinality(Slots)

Days == 0..MaxDay

(***************************************************************************)
(* time.Time helpers (types.go)                                            *)
(***************************************************************************)
\* time.Date(y, m, d, 0,0,0,0, loc): the first slot of the day of t
NormalizeDate(t) == t - (t % SlotsPerDay)

\* t.AddDate(0, 0, n)
AddDate(t, n) == t + n * SlotsPerDay

\* time.Date(y, m, d, 23,59,59,999999999, loc): the last slot of the day of t
EndOfDay(t) == NormalizeDate(t) + SlotsPerDay - 1

\* The first slot of day d, as main.go builds `from`
DayStart(d) == d * SlotsPerDay

\* t.Format("2006-01-02"): the calendar day alone, the time of day is dropped
DateToKey(t) == t \div SlotsPerDay

\* time.ParseInLocation("2006-01-02", key, time.Local)
KeyToDate(key) == key * SlotsPerDay

\* Today() for a clock reading `clock`
Today(clock) == NormalizeDate(clock)

Before(a, b) == a < b
After(a, b) == a > b

\* Times are counted in slots of the local zone.  A time whose Location() is a
\* zone that is `zone` slots behind the local one shows the wall clock t - zone
\* there; UTC is taken to be half a day behind the local zone
UtcBehind == SlotsPerDay \div 2

\* NormalizeDate(t) for a time in such a location: time.Date(y, m, d, 0,0,0,0,
\* t.Location()), midnight of the day t has in its own location
NormalizeDateIn(t, zone) == (t - zone) - ((t - zone) % SlotsPerDay) + zone

\* DateToKey(t) for a time in such a location: t.Format("2006-01-02") prints the
\* day t has in its own location
DateToKeyIn(t, zone) == (t - zone) \div SlotsPerDay

(***************************************************************************)
(* DateRange                                                               *)
(***************************************************************************)
DateRange(s, e) == [Start |-> s, End |-> e]

\* r.Contains(date)
Contains(r, date) ==
    LET d == NormalizeDate(date)
    IN  ~Before(d, r.Start) /\ ~After(d, r.End)

\* r.Overlaps(other)
Overlaps(r, other) == ~Before(r.End, other.Start) /\ ~Before(other.End, r.Start)

\* The orders sort.Slice may leave `ranges` in: sort.Slice is not stable, so
\* every permutation that is sorted by Start is a possible outcome.
SortSlice(ranges) ==
    LET n == Len(ranges)
    IN  { s \in { [i \in 1..n |-> ranges[p[i]]] : p \in Permutations(1..n) } :
            \A i \in 1..(n - 1) : ~Before(s[i + 1].Start, s[i].Start) }

\* The fold of MergeRanges over the sorted slice, from index i on
RECURSIVE MergeFoldMaxOnly(_, _, _)
MergeFoldMaxOnly(result, sorted, i) ==
    IF i > Len(sorted) THEN result
    ELSE LET last == result[Len(result)]
             current == sorted[i]
             nextDay == AddDate(last.End, 1)
         IN  IF ~After(current.Start, nextDay)
             THEN MergeFoldMaxOnly(
                      [result EXCEPT ![Len(result)].End = current.End],
                      sorted, i + 1)
             ELSE MergeFoldMaxOnly(Append(result, current), sorted, i + 1)

RECURSIVE MergeFoldNoAdjacent(_, _, _)
MergeFoldNoAdjacent(result, sorted, i) ==
    IF i > Len(sorted) THEN result
    ELSE LET last == result[Len(result)]
             current == sorted[i]
         IN  IF ~After(current.Start, last.End)
             THEN MergeFoldNoAdjacent(
                      IF After(current.End, last.End)
                      THEN [result EXCEPT ![Len(result)].End = current.End]
                      ELSE result,
                      sorted, i + 1)
             ELSE MergeFoldNoAdjacent(Append(result, current), sorted, i + 1)

RECURSIVE MergeFold(_, _, _)
MergeFold(result, sorted, i) ==
    IF i > Len(sorted) THEN result
    ELSE LET last == result[Len(result)]
             current == sorted[i]
             nextDay == AddDate(last.End, 1)
         IN  IF ~After(current.Start, nextDay)
             THEN MergeFold(
                      IF After(current.End, last.End)
                      THEN [result EXCEPT ![Len(result)].End = current.End]
                      ELSE result,
                      sorted, i + 1)
             ELSE MergeFold(Append(result, current), sorted, i + 1)

\* MergeRanges(ranges): the results it may return, one per outcome of the sort
MergeRanges(ranges) ==
    IF Len(ranges) = 0 THEN {ranges}
    ELSE { MergeFold(<<s[1]>>, s, 2) : s \in SortSlice(ranges) }

subtractRangeNoRight(base, subtract) ==
    IF ~Overlaps(base, subtract) THEN <<base>>
    ELSE IF Before(base.Start, subtract.Start)
         THEN <<DateRange(base.Start, AddDate(subtract.Start, -1))>>
         ELSE <<>>

\* subtractRange(base, subtract)
subtractRange(base, subtract) ==
    IF ~Overlaps(base, subtract) THEN <<base>>
    ELSE (IF Before(base.Start, subtract.Start)
          THEN <<DateRange(base.Start, AddDate(subtract.Start, -1))>>
          ELSE <<>>)
         \o
         (IF After(base.End, subtract.End)
          THEN <<DateRange(AddDate(subtract.End, 1), base.End)>>
          ELSE <<>>)

\* The inner loop of FindGaps: subtract c from every gap, in order
RECURSIVE SubtractFromAll(_, _, _)
SubtractFromAll(gaps, c, i) ==
    IF i > Len(gaps) THEN <<>>
    ELSE subtractRange(gaps[i], c) \o SubtractFromAll(gaps, c, i + 1)

\* The outer loop of FindGaps: subtract each cached range in turn
RECURSIVE SubtractCached(_, _, _)
SubtractCached(gaps, cached, i) ==
    IF i > Len(cached) THEN gaps
    ELSE SubtractCached(SubtractFromAll(gaps, cached[i], 1), cached, i + 1)

\* FindGaps(cached, from, to), with `clock` what time.Now() returns in Today()
FindGapsNoClip(cached, from, to, clock) ==
    LET f == NormalizeDate(from)
        t == NormalizeDate(to)
    IN  IF After(f, t) THEN <<>>
        ELSE SubtractCached(<<DateRange(f, t)>>, cached, 1)

FindGaps(cached, from, to, clock) ==
    LET f == NormalizeDate(from)
        t0 == NormalizeDate(to)
        today == Today(clock)
        t == IF ~Before(t0, today) THEN AddDate(today, -1) ELSE t0
    IN  IF After(f, t) THEN <<>>
        ELSE SubtractCached(<<DateRange(f, t)>>, cached, 1)

(***************************************************************************)
(* Go maps: functions with a finite domain                                 *)
(***************************************************************************)
EmptyMap == [k \in {} |-> <<>>]

MapGet(m, k, default) == IF k \in DOMAIN m THEN m[k] ELSE default

MapPut(m, k, v) == [x \in (DOMAIN m) \cup {k} |-> IF x = k THEN v ELSE m[x]]

(***************************************************************************)
(* Readings (models/types.go)                                              *)
(***************************************************************************)
ZevSensors == {"m1", "m2"}
BatterySensors == {"b1"}

\* models.ZevSensorData: a timestamp and the counters (one payload value)
ZevPoint(t, v) == [CreatedAt |-> t, val |-> v]

\* models.SensorData
SensorPoint(t, v) == [Date |-> t, val |-> v]

\* The location of a reading's timestamp, as json.Unmarshal set it from the
\* offset in the upstream's answer: the local zone unless the reading says else
ZoneOf(point) == IF "zone" \in DOMAIN point THEN point.zone ELSE 0

\* models.ZevData
ZevData(id, points) == [SensorID |-> id, Data |-> points]

\* The reading with its timestamp in the location `zone`: the same instant
InZone(point, zone) ==
    IF "CreatedAt" \in DOMAIN point
    THEN [CreatedAt |-> point.CreatedAt, val |-> point.val, zone |-> zone]
    ELSE [Date |-> point.Date, val |-> point.val, zone |-> zone]

\* The readings of an upstream answer with their timestamps in the location `zone`
AllInZone(kind, data, zone) ==
    IF kind = "zev"
    THEN [i \in 1..Len(data) |->
            ZevData(data[i].SensorID,
                    [j \in 1..Len(data[i].Data) |-> InZone(data[i].Data[j], zone)])]
    ELSE [j \in 1..Len(data) |-> InZone(data[j], zone)]

(***************************************************************************)
(* Cache (types.go, NewCache)                                              *)
(***************************************************************************)
NewCache ==
    [ZevData    |-> [Data |-> EmptyMap, CachedRanges |-> <<>>],
     SensorData |-> [Data |-> EmptyMap, CachedRanges |-> EmptyMap]]

\* c.Clear(): no readings and no cached ranges; the metadata stays
Clear(c) ==
    [c EXCEPT !.ZevData = [Data |-> EmptyMap, CachedRanges |-> <<>>],
              !.SensorData = [Data |-> EmptyMap, CachedRanges |-> EmptyMap]]

\* The inner loop of StoreZevData: the points of one sensor, from index j on.
\* zd is c.ZevData.Data: dateKey -> sensorID -> points
RECURSIVE StoreZevPoints(_, _, _, _, _)
StoreZevPoints(zd, sensorID, points, j, today) ==
    IF j > Len(points) THEN zd
    ELSE LET point == points[j]
             pointDate == NormalizeDateIn(point.CreatedAt, ZoneOf(point))
         IN  IF ~Before(pointDate, today)
             THEN StoreZevPoints(zd, sensorID, points, j + 1, today)
             ELSE LET dateKey == DateToKeyIn(pointDate, ZoneOf(point))
                      day == MapGet(zd, dateKey, EmptyMap)
                      zd2 == MapPut(zd, dateKey,
                                 MapPut(day, sensorID,
                                        Append(MapGet(day, sensorID, <<>>), point)))
                  IN  StoreZevPoints(zd2, sensorID, points, j + 1, today)

\* The outer loop of StoreZevData, from entry i on
RECURSIVE StoreZevEntries(_, _, _, _)
StoreZevEntries(zd, data, i, today) ==
    IF i > Len(data) THEN zd
    ELSE StoreZevEntries(
             StoreZevPoints(zd, data[i].SensorID, data[i].Data, 1, today),
             data, i + 1, today)

\* c.StoreZevData(data), with `clock` what time.Now() returns in Today()
StoreZevData(c, data, clock) ==
    [c EXCEPT !.ZevData.Data = StoreZevEntries(@, data, 1, Today(clock))]

\* c.UpdateZevCachedRanges(from, to): the caches it may leave
UpdateZevCachedRangesNoClip(c, from, to, clock) ==
    LET f == NormalizeDate(from)
        t == NormalizeDate(to)
    IN  IF After(f, t) THEN {c}
        ELSE { [c EXCEPT !.ZevData.CachedRanges = m] :
                 m \in MergeRanges(Append(c.ZevData.CachedRanges, DateRange(f, t))) }

UpdateZevCachedRangesNoMerge(c, from, to, clock) ==
    LET f == NormalizeDate(from)
        t0 == NormalizeDate(to)
        today == Today(clock)
        t == IF ~Before(t0, today) THEN AddDate(today, -1) ELSE t0
    IN  IF After(f, t) THEN {c}
        ELSE { [c EXCEPT !.ZevData.CachedRanges = Append(@, DateRange(f, t))] }

UpdateZevCachedRanges(c, from, to, clock) ==
    LET f == NormalizeDate(from)
        t0 == NormalizeDate(to)
        today == Today(clock)
        t == IF ~Before(t0, today) THEN AddDate(today, -1) ELSE t0
    IN  IF After(f, t) THEN {c}
        ELSE { [c EXCEPT !.ZevData.CachedRanges = m] :
                 m \in MergeRanges(Append(c.ZevData.CachedRanges, DateRange(f, t))) }

\* The day loop of Cache.GetZevData for one sensor: the points of the days d..to
RECURSIVE ZevPointsOf(_, _, _, _)
ZevPointsOf(zd, sensorID, d, to) ==
    IF After(d, to) THEN <<>>
    ELSE MapGet(MapGet(zd, DateToKey(d), EmptyMap), sensorID, <<>>)
         \o ZevPointsOf(zd, sensorID, AddDate(d, 1), to)

\* The sensors Cache.GetZevData finds a day entry for in d..to
RECURSIVE ZevSensorsIn(_, _, _)
ZevSensorsIn(zd, d, to) ==
    IF After(d, to) THEN {}
    ELSE (DOMAIN MapGet(zd, DateToKey(d), EmptyMap))
         \cup ZevSensorsIn(zd, AddDate(d, 1), to)

CacheGetZevDataShort(c, from, to) ==
    LET f == NormalizeDate(from)
        t == AddDate(NormalizeDate(to), -1)
    IN  [id \in ZevSensorsIn(c.ZevData.Data, f, t) |->
            ZevPointsOf(c.ZevData.Data, id, f, t)]

\* c.GetZevData(from, to): sensorID -> points.  The code returns the entries as a
\* list in map iteration order; the order of the entries is left out here.
CacheGetZevData(c, from, to) ==
    LET f == NormalizeDate(from)
        t == NormalizeDate(to)
    IN  [id \in ZevSensorsIn(c.ZevData.Data, f, t) |->
            ZevPointsOf(c.ZevData.Data, id, f, t)]

GetZevCacheGapsIgnoreCached(c, from, to, clock) == FindGaps(<<>>, from, to, clock)

\* c.GetZevCacheGaps(from, to)
GetZevCacheGaps(c, from, to, clock) == FindGaps(c.ZevData.CachedRanges, from, to, clock)

\* c.StoreSensorData(sensorID, data).  sd is c.SensorData.Data:
\* sensorID -> dateKey -> points; the loop over data, from index j on
RECURSIVE StoreSensorPoints(_, _, _, _, _)
StoreSensorPoints(sd, sensorID, data, j, today) ==
    IF j > Len(data) THEN sd
    ELSE LET point == data[j]
             pointDate == NormalizeDateIn(point.Date, ZoneOf(point))
         IN  IF ~Before(pointDate, today)
             THEN StoreSensorPoints(sd, sensorID, data, j + 1, today)
             ELSE LET dateKey == DateToKeyIn(pointDate, ZoneOf(point))
                      sd2 == MapPut(sd, sensorID,
                                 MapPut(sd[sensorID], dateKey,
                                        Append(MapGet(sd[sensorID], dateKey, <<>>), point)))
                  IN  StoreSensorPoints(sd2, sensorID, data, j + 1, today)

StoreSensorData(c, sensorID, data, clock) ==
    LET sd0 == c.SensorData.Data
        sd1 == IF sensorID \in DOMAIN sd0 THEN sd0 ELSE MapPut(sd0, sensorID, EmptyMap)
    IN  [c EXCEPT !.SensorData.Data = StoreSensorPoints(sd1, sensorID, data, 1, Today(clock))]

\* c.UpdateSensorCachedRanges(sensorID, from, to): the caches it may leave
UpdateSensorCachedRanges(c, sensorID, from, to, clock) ==
    LET f == NormalizeDate(from)
        t0 == NormalizeDate(to)
        today == Today(clock)
        t == IF ~Before(t0, today) THEN AddDate(today, -1) ELSE t0
        cr == c.SensorData.CachedRanges
    IN  IF After(f, t) THEN {c}
        ELSE { [c EXCEPT !.SensorData.CachedRanges = MapPut(cr, sensorID, m)] :
                 m \in MergeRanges(Append(MapGet(cr, sensorID, <<>>), DateRange(f, t))) }

\* The day loop of Cache.GetSensorData: the points of the days d..to
RECURSIVE SensorPointsOf(_, _, _)
SensorPointsOf(sensorCache, d, to) ==
    IF After(d, to) THEN <<>>
    ELSE MapGet(sensorCache, DateToKey(d), <<>>)
         \o SensorPointsOf(sensorCache, AddDate(d, 1), to)

\* c.GetSensorData(sensorID, from, to)
CacheGetSensorData(c, sensorID, from, to) ==
    IF sensorID \notin DOMAIN c.SensorData.Data THEN <<>>
    ELSE SensorPointsOf(c.SensorData.Data[sensorID], NormalizeDate(from), NormalizeDate(to))

\* c.GetSensorCacheGaps(sensorID, from, to)
GetSensorCacheGaps(c, sensorID, from, to, clock) ==
    FindGaps(MapGet(c.SensorData.CachedRanges, sensorID, <<>>), from, to, clock)

(***************************************************************************)
(* Merging of fetched and cached readings (CachedClient)                   *)
(***************************************************************************)
TimeOf(p) == IF "CreatedAt" \in DOMAIN p THEN p.CreatedAt ELSE p.Date

\* The places x may take in the sorted r
InsertSorted(r, x) ==
    { SubSeq(r, 1, k) \o <<x>> \o SubSeq(r, k + 1, Len(r)) :
        k \in { k \in 0..Len(r) :
                  /\ (k = 0 \/ ~Before(TimeOf(x), TimeOf(r[k])))
                  /\ (k = Len(r) \/ ~Before(TimeOf(r[k + 1]), TimeOf(x))) } }

\* The orders sort.Slice (by timestamp, not stable) may leave the points in
RECURSIVE SortByTime(_)
SortByTime(points) ==
    IF points = <<>> THEN {<<>>}
    ELSE UNION { InsertSorted(r, Head(points)) : r \in SortByTime(Tail(points)) }

\* The first loop of mergeZevData for one sensor: its entries concatenated
RECURSIVE ConcatSensor(_, _, _)
ConcatSensor(data, id, i) ==
    IF i > Len(data) THEN <<>>
    ELSE (IF data[i].SensorID = id THEN data[i].Data ELSE <<>>)
         \o ConcatSensor(data, id, i + 1)

\* mergeZevData(data): the results it may return, as sensorID -> points (the
\* code returns the entries in map iteration order)
mergeZevData(data) ==
    LET ids == { data[i].SensorID : i \in 1..Len(data) }
    IN  { m \in [ids -> UNION { SortByTime(ConcatSensor(data, id, 1)) : id \in ids }] :
            \A id \in ids : m[id] \in SortByTime(ConcatSensor(data, id, 1)) }

\* The key of seen[d.Date], a map[time.Time]bool: two time.Time values are
\* the same key when they are the same instant in the same Location
DateKey(point) == <<point.Date, ZoneOf(point)>>

\* The first loop of mergeSensorData: keep the first point of each timestamp
RECURSIVE DedupByDate(_, _, _)
DedupByDate(data, i, seen) ==
    IF i > Len(data) THEN <<>>
    ELSE IF DateKey(data[i]) \in seen THEN DedupByDate(data, i + 1, seen)
         ELSE <<data[i]>> \o DedupByDate(data, i + 1, seen \cup {DateKey(data[i])})

\* mergeSensorData(data): the results it may return
mergeSensorData(data) == SortByTime(DedupByDate(data, 1, {}))

(***************************************************************************)
(* The upstream meter-data service behind api.Client                       *)
(***************************************************************************)
ZevSensorSeq == <<"m1", "m2">>

Min(a, b) == IF a < b THEN a ELSE b

\* The samples one request for from..to is answered with: the samples the
\* service holds in from..to up to the time of the request, one per slot.  An
\* "exact" service returns the samples of from..to; a "boundary" service also
\* returns the sample that follows `to`.  The service holds samples from slot 0
\* on, or from the slot cc.since on where the meters were installed later
UpstreamZevPoints(from, to, clock) ==
    LET end == IF cc.client = "boundary" THEN to + 1 ELSE to
        start == IF "since" \in DOMAIN cc /\ from < cc.since THEN cc.since ELSE from
    IN  [i \in 1..(Min(end, clock) - start + 1) |-> ZevPoint(start + i - 1, start + i - 1)]

UpstreamSensorPoints(from, to, clock) ==
    LET end == IF cc.client = "boundary" THEN to + 1 ELSE to
        start == IF "since" \in DOMAIN cc /\ from < cc.since THEN cc.since ELSE from
    IN  [i \in 1..(Min(end, clock) - start + 1) |-> SensorPoint(start + i - 1, start + i - 1)]

\* Client.chunkDays as NewClient sets it: the days of one request
chunkDays == 30

\* Go's integer division and int(float64): towards zero
Quot(n, d) == IF n >= 0 THEN n \div d ELSE -((-n) \div d)

\* to.Sub(from).Hours() is a float64.  From the first instant of a day (00:00)
\* to the last instant of a day (23:59:59.999999999), forwards or backwards,
\* is one nanosecond less than 24 * days hours; from 4096 hours on the float64
\* next to that value is 24 * days itself, so that Hours() / 24 is `days` (or
\* -days) and not a little nearer to zero: the windows of this many days or
\* more
RoundedDays == 171

\* numChunks of calculateChunks; totalDays is int(to.Sub(from).Hours()/24) + 1.
\* The first slot of a day is its first instant; the last slot of a day is its
\* last instant, as main.go and the fetcher build `to`.  Every day of the local
\* zone has 24 hours here: no daylight-saving change
numChunks(from, to) ==
    LET first == IF from <= to THEN from ELSE to
        last == IF from <= to THEN to ELSE from
        wholeDays == /\ first % SlotsPerDay = 0
                     /\ last % SlotsPerDay = SlotsPerDay - 1
        days == (last - first + 1) \div SlotsPerDay
        hoursBy24 == IF wholeDays /\ days >= RoundedDays
                     THEN (IF from <= to THEN days ELSE -days)
                     ELSE Quot(to - from, SlotsPerDay)
        totalDays == hoursBy24 + 1
    IN  Quot(totalDays + chunkDays - 1, chunkDays)

\* make([]timeChunk, 0, numChunks) with a negative capacity panics
calculateChunksPanics(from, to) == numChunks(from, to) < 0

\* The loop of calculateChunks with n chunks to go
RECURSIVE chunksFrom(_, _, _)
chunksFrom(chunkStart, to, n) ==
    IF n <= 0 THEN <<>>
    ELSE LET end == chunkStart + chunkDays * SlotsPerDay
             chunkEnd == IF After(end, to) THEN to ELSE end
         IN  <<[Start |-> chunkStart, End |-> chunkEnd]>> \o chunksFrom(chunkEnd, to, n - 1)

\* c.calculateChunks(from, to), where it does not panic
calculateChunks(from, to) == chunksFrom(from, to, numChunks(from, to))

\* The answer of the service to one request for the ZEV data of from..to
ZevChunkData(from, to, clock) ==
    [i \in 1..Len(ZevSensorSeq) |->
        ZevData(ZevSensorSeq[i], UpstreamZevPoints(from, to, clock))]

\* The chunk loop of GetZevData / GetSensorData: allData = append(allData, chunkData...)
RECURSIVE ZevChunks(_, _, _)
ZevChunks(chunks, i, clock) ==
    IF i > Len(chunks) THEN <<>>
    ELSE ZevChunkData(chunks[i].Start, chunks[i].End, clock) \o ZevChunks(chunks, i + 1, clock)

RECURSIVE SensorChunks(_, _, _)
SensorChunks(chunks, i, clock) ==
    IF i > Len(chunks) THEN <<>>
    ELSE UpstreamSensorPoints(chunks[i].Start, chunks[i].End, clock)
         \o SensorChunks(chunks, i + 1, clock)

\* api.Client.GetZevData(smId, from, to) on success; "panic" where
\* calculateChunks panics
ClientGetZevData(from, to, clock) ==
    IF calculateChunksPanics(from, to) THEN "panic"
    ELSE ZevChunks(calculateChunks(from, to), 1, clock)

\* api.Client.GetSensorData(smId, sensorID, from, to) on success
ClientGetSensorData(sensorID, from, to, clock) ==
    IF calculateChunksPanics(from, to) THEN "panic"
    ELSE SensorChunks(calculateChunks(from, to), 1, clock)

vars == <<alg, now, cache, disk, call, api, src, cc, fs, an>>

(***************************************************************************)
(* State                                                                   *)
(*   now    the wall clock (time.Now()), in slots                          *)
(*   cache  the in-memory Cache of the CachedClient                        *)
(*   disk   the snapshot in the cache file                                 *)
(*   call   the GetZevData / GetSensorData call in progress                *)
(*   api    the results of direct calls of the cache store                 *)
(*   alg    inputs and results of the range algebra                        *)
(*   src    the data source (the ZEV dataset or one battery sensor) the    *)
(*          calls of a run are about                                       *)
(*   cc     the fields of the CachedClient that never change: enabled and  *)
(*          the upstream client                                            *)
(*   fs     the cache file and its temporary file, and the Save or Load    *)
(*          in progress                                                    *)
(*   an     the EnergyAnalyzer and the Analyze call in progress            *)
(***************************************************************************)
MaxTick == EndOfDay(DayStart(MaxDay))
Ticks == 0..MaxTick

IdleCall ==
    [pc |-> "idle", kind |-> "zev", sensorID |-> "", from |-> 0, to |-> 0,
     today |-> 0, gaps |-> <<>>, includestoday |-> FALSE, gap |-> DateRange(0, 0),
     data |-> <<>>, allData |-> <<>>, cacheModified |-> FALSE,
     result |-> <<>>, err |-> FALSE,
     reqs |-> <<>>, startRanges |-> <<>>, startDay |-> 0, todayData |-> <<>>,
     save |-> "none"]

IdleApi == [op |-> "none", given |-> <<>>, clipped |-> FALSE,
            from |-> 0, to |-> 0, ret |-> <<>>]

IdleAlg == [op |-> "none", ranges |-> <<>>, from |-> 0, to |-> 0, clock |-> 0,
            out |-> <<>>]

\* The file system has no file at a path
NoFile == [exists |-> FALSE]

\* A process that has not saved or loaded yet, and no files.  SmID is
\* Metadata.SmID of the in-memory cache, snap the snapshot a Save encodes, prev
\* the file that was at the cache path when the Save began
IdleFs == [pc |-> "idle", SmID |-> "", files |-> [p \in {"path", "tmp"} |-> NoFile],
           snap |-> NoFile, prev |-> NoFile, err |-> FALSE,
           load |-> [op |-> "none"]]

\* &EnergyAnalyzer{} before a configuration is given to it
IdleAn ==
    [pc |-> "idle", config |-> [nil |-> TRUE], from |-> 0, to |-> 0, calls |-> 0,
     sensorMap |-> EmptyMap, intervals |-> <<>>, batteries |-> <<>>,
     low |-> [nil |-> TRUE], high |-> [nil |-> TRUE], err |-> "", fetches |-> <<>>]

Sources == {<<"zev", "">>} \cup {<<"sensor", id>> : id \in BatterySensors}

Init ==
    /\ now = DayStart(0)
    /\ cache = NewCache
    /\ disk = NewCache
    /\ call = IdleCall
    /\ api = IdleApi
    /\ alg = IdleAlg
    /\ src \in Sources
    /\ cc = [enabled |-> TRUE, client |-> "exact"]
    /\ fs = IdleFs
    /\ an = IdleAn

\* The cached ranges of the source a call is about
SourceRanges(c, kind, sensorID) ==
    IF kind = "zev" THEN c.ZevData.CachedRanges
    ELSE MapGet(c.SensorData.CachedRanges, sensorID, <<>>)

\* time passes, up to the slot `limit`
TickTo(limit) ==
    /\ now < limit
    /\ now' = now + 1
    /\ UNCHANGED <<alg, cache, disk, call, api, src, cc, fs, an>>

Tick == TickTo(MaxTick)

(***************************************************************************)
(* CachedClient.GetZevData / GetSensorData with caching enabled            *)
(***************************************************************************)
\* entry: today := Today(); allData = nil; cacheModified := false
Call(kind, sensorID, from, to) ==
    /\ call.pc = "idle"
    /\ cc.enabled
    /\ call' = [IdleCall EXCEPT !.pc = "gaps", !.kind = kind, !.sensorID = sensorID,
                                !.from = from, !.to = to, !.today = Today(now),
                                !.startRanges = SourceRanges(cache, kind, sensorID),
                                !.startDay = Today(now)]
    /\ UNCHANGED <<alg, now, cache, disk, api, src, cc, fs, an>>

ComputeGapsStrictToday ==
    /\ call.pc = "gaps"
    /\ call' = [call EXCEPT
                  !.pc = "loop",
                  !.gaps = IF call.kind = "zev"
                           THEN GetZevCacheGaps(cache, call.from, call.to, now)
                           ELSE GetSensorCacheGaps(cache, call.sensorID, call.from, call.to, now),
                  !.includestoday = After(NormalizeDate(call.to), call.today)]
    /\ UNCHANGED <<alg, now, cache, disk, api, src, cc, fs, an>>

\* gaps := cc.cache.Get...CacheGaps(from, to); includestoday := ...
ComputeGaps ==
    /\ call.pc = "gaps"
    /\ call' = [call EXCEPT
                  !.pc = "loop",
                  !.gaps = IF call.kind = "zev"
                           THEN GetZevCacheGaps(cache, call.from, call.to, now)
                           ELSE GetSensorCacheGaps(cache, call.sensorID, call.from, call.to, now),
                  !.includestoday = ~Before(NormalizeDate(call.to), call.today)]
    /\ UNCHANGED <<alg, now, cache, disk, api, src, cc, fs, an>>

\* The upstream request of a call for from..to
Request(from, to, isToday) ==
    [from |-> from, to |-> to, isToday |-> isToday,
     cached |-> SourceRanges(cache, call.kind, call.sensorID)]

\* The answer of the upstream client to a request for from..to: the answers to
\* its chunk requests, with the timestamps in UTC when the service sends them so
Response(from, to) ==
    LET data == IF call.kind = "zev" THEN ClientGetZevData(from, to, now)
                ELSE ClientGetSensorData(call.sensorID, from, to, now)
    IN  IF cc.client = "utc" THEN AllInZone(call.kind, data, UtcBehind) ELSE data

\* the gap loop: data, err := cc.client.Get...(smId, gap.Start, gapEnd), err == nil
GapFetch ==
    /\ call.pc = "loop"
    /\ call.gaps # <<>>
    /\ LET gap == Head(call.gaps)
           gapEnd == EndOfDay(gap.End)
       IN  call' = [call EXCEPT !.pc = "store", !.gap = gap,
                                !.data = Response(gap.Start, gapEnd),
                                !.reqs = Append(@, Request(gap.Start, gapEnd, FALSE))]
    /\ UNCHANGED <<alg, now, cache, disk, api, src, cc, fs, an>>

GapFetchFailGoesOn ==
    /\ call.pc = "loop"
    /\ call.gaps # <<>>
    /\ LET gap == Head(call.gaps)
       IN  call' = [call EXCEPT !.err = TRUE, !.result = <<>>, !.gaps = Tail(@),
                                !.reqs = Append(@, Request(gap.Start, EndOfDay(gap.End), FALSE))]
    /\ UNCHANGED <<alg, now, cache, disk, api, src, cc, fs, an>>

GapFetchFailRollsBack ==
    /\ call.pc = "loop"
    /\ call.gaps # <<>>
    /\ LET gap == Head(call.gaps)
           gapEnd == EndOfDay(gap.End)
       IN  call' = [call EXCEPT !.pc = "done", !.gap = gap, !.err = TRUE,
                                !.result = <<>>,
                                !.reqs = Append(@, Request(gap.Start, gapEnd, FALSE))]
    /\ cache' = disk
    /\ UNCHANGED <<alg, now, disk, api, src, cc, fs, an>>

\* the gap loop: the upstream request fails, return nil, err
GapFetchFail ==
    /\ call.pc = "loop"
    /\ call.gaps # <<>>
    /\ LET gap == Head(call.gaps)
           gapEnd == EndOfDay(gap.End)
       IN  call' = [call EXCEPT !.pc = "done", !.gap = gap, !.err = TRUE,
                                !.result = <<>>,
                                !.reqs = Append(@, Request(gap.Start, gapEnd, FALSE))]
    /\ UNCHANGED <<alg, now, cache, disk, api, src, cc, fs, an>>

\* the gap loop: cc.cache.Store...Data(data)
GapStore ==
    /\ call.pc = "store"
    /\ cache' = IF call.kind = "zev"
                THEN StoreZevData(cache, call.data, now)
                ELSE StoreSensorData(cache, call.sensorID, call.data, now)
    /\ call' = [call EXCEPT !.pc = "mark", !.data = <<>>]
    /\ UNCHANGED <<alg, now, disk, api, src, cc, fs, an>>

GapMarkStartOnly ==
    /\ call.pc = "mark"
    /\ cache' \in (IF call.kind = "zev"
                    THEN UpdateZevCachedRanges(cache, call.gap.Start, call.gap.Start, now)
                    ELSE UpdateSensorCachedRanges(cache, call.sensorID,
                                                  call.gap.Start, call.gap.Start, now))
    /\ call' = [call EXCEPT !.pc = "loop", !.gaps = Tail(@), !.cacheModified = TRUE]
    /\ UNCHANGED <<alg, now, disk, api, src, cc, fs, an>>

GapMarkAndSave ==
    /\ call.pc = "mark"
    /\ cache' \in (IF call.kind = "zev"
                    THEN UpdateZevCachedRanges(cache, call.gap.Start, call.gap.End, now)
                    ELSE UpdateSensorCachedRanges(cache, call.sensorID,
                                                  call.gap.Start, call.gap.End, now))
    /\ disk' = cache'
    /\ call' = [call EXCEPT !.pc = "loop", !.gaps = Tail(@), !.cacheModified = TRUE]
    /\ UNCHANGED <<alg, now, api, src, cc, fs, an>>

\* the gap loop: cc.cache.Update...CachedRanges(gap.Start, gap.End); cacheModified = true
GapMark ==
    /\ call.pc = "mark"
    /\ cache' \in (IF call.kind = "zev"
                    THEN UpdateZevCachedRanges(cache, call.gap.Start, call.gap.End, now)
                    ELSE UpdateSensorCachedRanges(cache, call.sensorID,
                                                  call.gap.Start, call.gap.End, now))
    /\ call' = [call EXCEPT !.pc = "loop", !.gaps = Tail(@), !.cacheModified = TRUE]
    /\ UNCHANGED <<alg, now, disk, api, src, cc, fs, an>>

\* if includestoday: todayData, err := cc.client.Get...(smId, today, todayEnd)
TodayFetch ==
    /\ call.pc = "loop"
    /\ call.gaps = <<>>
    /\ call.includestoday
    /\ LET todayEnd == EndOfDay(call.today)
           todayData == Response(call.today, todayEnd)
       IN  call' = [call EXCEPT !.pc = "finish",
                                !.allData = @ \o todayData,
                                !.todayData = todayData,
                                !.reqs = Append(@, Request(call.today, todayEnd, TRUE))]
    /\ UNCHANGED <<alg, now, cache, disk, api, src, cc, fs, an>>

TodayFetchFail ==
    /\ call.pc = "loop"
    /\ call.gaps = <<>>
    /\ call.includestoday
    /\ call' = [call EXCEPT !.pc = "done", !.err = TRUE, !.result = <<>>,
                            !.reqs = Append(@, Request(call.today, EndOfDay(call.today), TRUE))]
    /\ UNCHANGED <<alg, now, cache, disk, api, src, cc, fs, an>>

\* The cached historical data appended to allData (step 5)
WithHistorical(c) ==
    LET historicalEnd == IF c.includestoday THEN AddDate(c.today, -1)
                         ELSE NormalizeDate(c.to)
    IN  IF Before(historicalEnd, NormalizeDate(c.from)) THEN c.allData
        ELSE IF c.kind = "zev"
             THEN LET cachedData == CacheGetZevData(cache, c.from, historicalEnd)
                      ids == { ZevSensorSeq[i] : i \in 1..Len(ZevSensorSeq) }
                               \cap DOMAIN cachedData
                      order == { i \in 1..Len(ZevSensorSeq) : ZevSensorSeq[i] \in ids }
                      \* the entries of cachedData, one per sensor
                      entry(n) == LET i == CHOOSE i \in order :
                                             Cardinality({j \in order : j < i}) = n - 1
                                  IN  ZevData(ZevSensorSeq[i], cachedData[ZevSensorSeq[i]])
                  IN  c.allData \o [n \in 1..Cardinality(order) |-> entry(n)]
             ELSE c.allData \o CacheGetSensorData(cache, c.sensorID, c.from, historicalEnd)

FinishSaveFatal(saveOk) ==
    /\ \/ call.pc = "finish"
       \/ call.pc = "loop" /\ call.gaps = <<>> /\ ~call.includestoday
    /\ disk' = IF call.cacheModified /\ saveOk THEN cache ELSE disk
    /\ IF call.cacheModified /\ ~saveOk
       THEN call' = [call EXCEPT !.pc = "done", !.err = TRUE, !.result = <<>>,
                                 !.save = "failed", !.allData = WithHistorical(call)]
       ELSE \E res \in (IF call.kind = "zev" THEN mergeZevData(WithHistorical(call))
                        ELSE mergeSensorData(WithHistorical(call))) :
              call' = [call EXCEPT !.pc = "done", !.result = res,
                                   !.save = IF call.cacheModified THEN "ok" ELSE "none",
                                   !.allData = WithHistorical(call)]
    /\ UNCHANGED <<alg, now, cache, api, src, cc, fs, an>>

\* steps 5 to 7: read the cache, save it if modified (the save may fail, which
\* is only logged), merge and return
Finish(saveOk) ==
    /\ \/ call.pc = "finish"
       \/ call.pc = "loop" /\ call.gaps = <<>> /\ ~call.includestoday
    /\ disk' = IF call.cacheModified /\ saveOk THEN cache ELSE disk
    /\ \E res \in (IF call.kind = "zev" THEN mergeZevData(WithHistorical(call))
                   ELSE mergeSensorData(WithHistorical(call))) :
          call' = [call EXCEPT !.pc = "done", !.result = res,
                               !.save = IF ~call.cacheModified THEN "none"
                                        ELSE IF saveOk THEN "ok" ELSE "failed",
                               !.allData = WithHistorical(call)]
    /\ UNCHANGED <<alg, now, cache, api, src, cc, fs, an>>

\* the caller takes the result
Return ==
    /\ call.pc = "done"
    /\ call' = IdleCall
    /\ UNCHANGED <<alg, now, cache, disk, api, src, cc, fs, an>>

FetchSteps ==
    \/ (call.pc = "idle" /\ \E f \in Days, t \in Days :
          Call(src[1], src[2], DayStart(f), EndOfDay(DayStart(t))))
    \/ ComputeGaps
    \/ GapFetch
    \/ GapFetchFail
    \/ GapStore
    \/ GapMark
    \/ TodayFetch
    \/ TodayFetchFail
    \/ \E saveOk \in BOOLEAN : Finish(saveOk)
    \/ Return

NextFetch == Tick \/ FetchSteps

SpecFetch == Init /\ [][NextFetch]_vars

\* The fetcher in front of an upstream that returns boundary samples
InitBoundary ==
    /\ now = DayStart(0)
    /\ cache = NewCache
    /\ disk = NewCache
    /\ call = IdleCall
    /\ api = IdleApi
    /\ alg = IdleAlg
    /\ src \in Sources
    /\ cc = [enabled |-> TRUE, client |-> "boundary"]
    /\ fs = IdleFs
    /\ an = IdleAn

SpecBoundary == InitBoundary /\ [][NextFetch]_vars

\* cc.ClearCache(): cc.cache.Clear(), then cc.cache.Save(cc.cachePath), which
\* may fail
ClearCache(saveOk) ==
    /\ call.pc = "idle"
    /\ cache' = Clear(cache)
    /\ disk' = IF saveOk THEN Clear(cache) ELSE disk
    /\ UNCHANGED <<alg, now, call, api, src, cc, fs, an>>

\* cc.DeleteCache(): Delete(cc.cachePath) removes the cache file, or fails; a
\* later Load finds no file and starts from NewCache.  The in-memory cache stays
DeleteCache(ok) ==
    /\ call.pc = "idle"
    /\ disk' = IF ok THEN NewCache ELSE disk
    /\ UNCHANGED <<alg, now, cache, call, api, src, cc, fs, an>>

\* The fetcher in front of an upstream that returns the samples of the window,
\* with their timestamps in the local zone or in UTC; between the calls the
\* cache may be cleared and the cache file deleted
InitUTC ==
    /\ now = DayStart(0)
    /\ cache = NewCache
    /\ disk = NewCache
    /\ call = IdleCall
    /\ api = IdleApi
    /\ alg = IdleAlg
    /\ src \in Sources
    /\ cc \in { [enabled |-> TRUE, client |-> k] : k \in {"exact", "utc"} }
    /\ fs = IdleFs
    /\ an = IdleAn

NextUTC ==
    \/ NextFetch
    \/ \E saveOk \in BOOLEAN : ClearCache(saveOk)
    \/ \E ok \in BOOLEAN : DeleteCache(ok)

SpecUTC == InitUTC /\ [][NextUTC]_vars

(***************************************************************************)
(* The fetcher over windows that take more than one request of the client  *)
(***************************************************************************)
\* The last days of the windows: with day 0 as the first day, chunkDays days
\* and less are one chunk, chunkDays + 1 days are two
LongDays == {chunkDays - 2, chunkDays - 1, chunkDays, chunkDays + 1}

\* The clock of these runs stops at the end of this day
LastLongDay == chunkDays + 2

\* A new CachedClient on the day after the longest past window, in front of an
\* upstream that returns the samples of the requested window; the meters were
\* installed on day chunkDays - 1, the service holds no older samples
InitChunks ==
    /\ now = DayStart(chunkDays + 1)
    /\ cache = NewCache
    /\ disk = NewCache
    /\ call = IdleCall
    /\ api = IdleApi
    /\ alg = IdleAlg
    /\ src \in Sources
    /\ cc = [enabled |-> TRUE, client |-> "exact", since |-> DayStart(chunkDays - 1)]
    /\ fs = IdleFs
    /\ an = IdleAn

NextChunks ==
    \/ TickTo(EndOfDay(DayStart(LastLongDay)))
    \/ (call.pc = "idle" /\ \E f \in {0, 1}, t \in LongDays :
          Call(src[1], src[2], DayStart(f), EndOfDay(DayStart(t))))
    \/ ComputeGaps
    \/ GapFetch
    \/ GapFetchFail
    \/ GapStore
    \/ GapMark
    \/ TodayFetch
    \/ TodayFetchFail
    \/ \E saveOk \in BOOLEAN : Finish(saveOk)
    \/ Return

SpecChunks == InitChunks /\ [][NextChunks]_vars

(***************************************************************************)
(* Direct calls of the cache store: Store, MarkCached, Retrieve            *)
(***************************************************************************)
\* Readings a caller may hand to Store: one or two points of one sensor, or one
\* point each in two entries; any timestamps, the payloads tell them apart
ZevStoreInputs ==
    {<<ZevData(id, <<ZevPoint(t, 1)>>)>> : id \in ZevSensors, t \in Ticks}
    \cup {<<ZevData(id, <<ZevPoint(t[1], 1), ZevPoint(t[2], 2)>>)>> :
            id \in ZevSensors, t \in Ticks \X Ticks}
    \cup {<<ZevData(id[1], <<ZevPoint(t[1], 1)>>), ZevData(id[2], <<ZevPoint(t[2], 2)>>)>> :
            id \in ZevSensors \X ZevSensors, t \in Ticks \X Ticks}

SensorStoreInputs ==
    {<<SensorPoint(t, 1)>> : t \in Ticks}
    \cup {<<SensorPoint(t[1], 1), SensorPoint(t[2], 2)>> : t \in Ticks \X Ticks}

StoreInputs == IF src[1] = "zev" THEN ZevStoreInputs ELSE SensorStoreInputs

\* The readings of one day: its first and its last slot
DayBatch(d) ==
    IF src[1] = "zev"
    THEN <<ZevData("m1", <<ZevPoint(DayStart(d), 1), ZevPoint(EndOfDay(DayStart(d)), 2)>>)>>
    ELSE <<SensorPoint(DayStart(d), 1), SensorPoint(EndOfDay(DayStart(d)), 2)>>

\* c.StoreZevData(data) / c.StoreSensorData(sensorID, data), called once
ApiStore(data) ==
    /\ call.pc = "idle"
    /\ api.given = <<>>
    /\ cache' = IF src[1] = "zev" THEN StoreZevData(cache, data, now)
                ELSE StoreSensorData(cache, src[2], data, now)
    /\ api' = [api EXCEPT !.op = "store", !.given = data]
    /\ UNCHANGED <<alg, now, disk, call, src, cc, fs, an>>

\* c.UpdateZevCachedRanges(from, to) / c.UpdateSensorCachedRanges(sensorID, from, to)
ApiMark(from, to) ==
    /\ call.pc = "idle"
    /\ cache' \in (IF src[1] = "zev" THEN UpdateZevCachedRanges(cache, from, to, now)
                    ELSE UpdateSensorCachedRanges(cache, src[2], from, to, now))
    /\ api' = [api EXCEPT !.clipped =
                  @ \/ (~Before(NormalizeDate(to), Today(now))
                        /\ Before(NormalizeDate(from), Today(now)))]
    /\ UNCHANGED <<alg, now, disk, call, src, cc, fs, an>>

\* c.GetZevData(from, to) / c.GetSensorData(sensorID, from, to)
ApiRetrieve(from, to) ==
    /\ call.pc = "idle"
    /\ api' = [api EXCEPT !.op = "retrieve", !.from = from, !.to = to,
                          !.ret = IF src[1] = "zev" THEN CacheGetZevData(cache, from, to)
                                  ELSE CacheGetSensorData(cache, src[2], from, to)]
    /\ UNCHANGED <<alg, now, cache, disk, call, src, cc, fs, an>>

\* The clock of a run that only stores and retrieves
InitStore ==
    /\ now \in Ticks
    /\ cache = NewCache
    /\ disk = NewCache
    /\ call = IdleCall
    /\ api = IdleApi
    /\ alg = IdleAlg
    /\ src \in Sources
    /\ cc = [enabled |-> TRUE, client |-> "exact"]
    /\ fs = IdleFs
    /\ an = IdleAn

NextStore ==
    \/ (api.given = <<>> /\ \E data \in StoreInputs : ApiStore(data))
    \/ \E f \in Days, t \in Days : ApiRetrieve(DayStart(f), DayStart(t))

SpecStore == InitStore /\ [][NextStore]_vars

\* Store and Retrieve with readings whose timestamps are local or in UTC
ZoneInputs ==
    { AllInZone(src[1], DayBatch(d), zone) : d \in Days, zone \in {0, UtcBehind} }

NextZone ==
    \/ (api.given = <<>> /\ \E data \in ZoneInputs : ApiStore(data))
    \/ \E f \in Days, t \in Days : ApiRetrieve(DayStart(f), DayStart(t))

SpecZone == InitStore /\ [][NextZone]_vars

NextMark ==
    \/ Tick
    \/ \E from \in Ticks, to \in Ticks : ApiMark(from, to)

SpecMark == Init /\ [][NextMark]_vars

(***************************************************************************)
(* The cache under any use: direct calls between the calls of the fetcher  *)
(***************************************************************************)
HorizonTick == EndOfDay(DayStart(HorizonDay))

Next ==
    \/ TickTo(HorizonTick)
    \/ FetchSteps
    \/ (call.pc = "idle" /\ api.given = <<>> /\ \E d \in Days : ApiStore(DayBatch(d)))
    \/ (call.pc = "idle" /\ \E f \in Days : ApiMark(DayStart(f), MaxTick))

Spec == Init /\ [][Next]_vars

(***************************************************************************)
(* The range algebra on its own                                            *)
(***************************************************************************)
\* Valid ranges (Start <= End) of whole days
ValidRanges ==
    { r \in { DateRange(DayStart(d[1]), DayStart(d[2])) : d \in Days \X Days } :
        ~After(r.Start, r.End) }

RECURSIVE SeqsUpTo(_, _)
SeqsUpTo(S, n) ==
    IF n = 0 THEN {<<>>}
    ELSE SeqsUpTo(S, n - 1) \cup
         { Append(q, x) : q \in { q \in SeqsUpTo(S, n - 1) : Len(q) = n - 1 }, x \in S }

AlgInput(ranges) ==
    /\ alg.op = "none"
    /\ alg' = [alg EXCEPT !.op = "input", !.ranges = ranges]
    /\ UNCHANGED <<now, cache, disk, call, api, src, cc, fs, an>>

AlgMerge ==
    /\ alg.op = "input"
    /\ \E m \in MergeRanges(alg.ranges) : alg' = [alg EXCEPT !.op = "merged", !.out = m]
    /\ UNCHANGED <<now, cache, disk, call, api, src, cc, fs, an>>

AlgFindGaps(from, to, clock) ==
    /\ alg.op = "input"
    /\ alg' = [alg EXCEPT !.op = "gaps", !.from = from, !.to = to, !.clock = clock,
                          !.out = FindGaps(alg.ranges, from, to, clock)]
    /\ UNCHANGED <<now, cache, disk, call, api, src, cc, fs, an>>

InitRanges ==
    /\ now = DayStart(0)
    /\ cache = NewCache
    /\ disk = NewCache
    /\ call = IdleCall
    /\ api = IdleApi
    /\ alg = IdleAlg
    /\ src = <<"zev", "">>
    /\ cc = [enabled |-> TRUE, client |-> "exact"]
    /\ fs = IdleFs
    /\ an = IdleAn

NextRanges ==
    \/ (alg.op = "none" /\ \E ranges \in SeqsUpTo(ValidRanges, MaxLen) : AlgInput(ranges))
    \/ AlgMerge
    \/ (alg.op = "input" /\ \E f \in Days, to \in Ticks, clock \in Ticks :
          AlgFindGaps(DayStart(f), to, clock))

SpecRanges == InitRanges /\ [][NextRanges]_vars

(***************************************************************************)
(* EnergyAnalyzer (internal/analyzer/energy.go).  Times are seconds since  *)
(* local midnight of the first day, energies are whole Wh.                 *)
(***************************************************************************)
IntervalSeconds == 900
MaxGridReadingDiffWh == 30000
MaxProductionReadingWh == 10000
MaxConsumerReadingWh == 10000
SecondsPerHour == 3600
HoursPerDay == 24

\* time.Time.Hour()
Hour(t) == (t \div SecondsPerHour) % HoursPerDay

\* ea.isLowTariffHour(hour), with the configured window
isLowTariffHourNoWrap(LowTariff, hour) ==
    hour >= LowTariff.StartHour /\ hour < LowTariff.EndHour

isLowTariffHour(LowTariff, hour) ==
    LET start == LowTariff.StartHour
        end == LowTariff.EndHour
    IN  IF start > end THEN hour >= start \/ hour < end
        ELSE hour >= start /\ hour < end

\* &IntervalData{Start: current, End: intervalEnd, ConsumerUsage: make(...)}
IntervalData(start, end) ==
    [Start |-> start, End |-> end, GridImport |-> 0, GridExport |-> 0,
     InverterGeneratedPower |-> 0, InverterPowerConsumption |-> 0,
     BatteryCharge |-> 0, BatteryDischarge |-> 0, ConsumerUsage |-> EmptyMap]

\* ea.createIntervals(from, to): the intervals appended to ea.intervals
RECURSIVE createIntervalsFromWhole(_, _)
RECURSIVE createIntervalsFrom(_, _)
createIntervalsFromWhole(current, to) ==
    IF current < to
    THEN <<IntervalData(current, current + IntervalSeconds)>>
             \o createIntervalsFromWhole(current + IntervalSeconds, to)
    ELSE <<>>

createIntervalsFrom(current, to) ==
    IF current < to
    THEN LET intervalEnd == IF current + IntervalSeconds > to THEN to
                            ELSE current + IntervalSeconds
         IN  <<IntervalData(current, intervalEnd)>> \o createIntervalsFrom(intervalEnd, to)
    ELSE <<>>

createIntervals(intervals, from, to) == intervals \o createIntervalsFrom(from, to)

\* ea.findInterval(t): the index of the first interval that contains t, 0 for nil
findInterval(intervals, t) ==
    LET hits == { i \in 1..Len(intervals) :
                    t >= intervals[i].Start /\ t < intervals[i].End }
    IN  IF hits = {} THEN 0 ELSE CHOOSE i \in hits : \A j \in hits : i <= j

\* interval.<field> += amount
AddTo(intervals, i, field, amount) ==
    [intervals EXCEPT ![i][field] = @ + amount]

\* collectGridData: the samples 1..len-1 of one sensor, from sample i on
RECURSIVE collectGridSamplesStopAtAnomaly(_, _, _)
RECURSIVE collectGridSamples(_, _, _)
collectGridSamplesStopAtAnomaly(intervals, samples, i) ==
    IF i > Len(samples) THEN intervals
    ELSE LET current == samples[i]
             previous == samples[i - 1]
             interval == findInterval(intervals, current.CreatedAt)
             purchaseDiff == current.CurrentEnergyPurchaseTariff1
                             - previous.CurrentEnergyPurchaseTariff1
             deliveryDiff == current.CurrentEnergyDeliveryTariff1
                             - previous.CurrentEnergyDeliveryTariff1
             skip == \/ (previous.CurrentEnergyDeliveryTariff1 = 0
                         /\ current.CurrentEnergyDeliveryTariff1 # 0)
                     \/ purchaseDiff > MaxGridReadingDiffWh
                     \/ deliveryDiff > MaxGridReadingDiffWh
         IN  IF interval = 0 THEN collectGridSamplesStopAtAnomaly(intervals, samples, i + 1)
             ELSE IF skip THEN intervals
             ELSE collectGridSamplesStopAtAnomaly(
                      AddTo(AddTo(intervals, interval, "GridImport", purchaseDiff),
                            interval, "GridExport", deliveryDiff),
                      samples, i + 1)

collectGridSamples(intervals, samples, i) ==
    IF i > Len(samples) THEN intervals
    ELSE LET current == samples[i]
             previous == samples[i - 1]
             interval == findInterval(intervals, current.CreatedAt)
             purchaseDiff == current.CurrentEnergyPurchaseTariff1
                             - previous.CurrentEnergyPurchaseTariff1
             deliveryDiff == current.CurrentEnergyDeliveryTariff1
                             - previous.CurrentEnergyDeliveryTariff1
             skip == \/ interval = 0
                     \/ (previous.CurrentEnergyDeliveryTariff1 = 0
                         /\ current.CurrentEnergyDeliveryTariff1 # 0)
                     \/ purchaseDiff > MaxGridReadingDiffWh
                     \/ deliveryDiff > MaxGridReadingDiffWh
         IN  collectGridSamples(
                 IF skip THEN intervals
                 ELSE AddTo(AddTo(intervals, interval, "GridImport", purchaseDiff),
                            interval, "GridExport", deliveryDiff),
                 samples, i + 1)

\* ea.collectGridData(data), from entry k of data on
RECURSIVE collectGridEntries(_, _, _, _)
collectGridEntries(intervals, GridMeterID, data, k) ==
    IF k > Len(data) THEN intervals
    ELSE collectGridEntries(
             IF data[k].SensorID # GridMeterID THEN intervals
             ELSE collectGridSamples(intervals, data[k].Data, 2),
             GridMeterID, data, k + 1)

collectGridData(intervals, config, data) ==
    IF config.ZEV.GridMeterID = "" THEN intervals
    ELSE collectGridEntries(intervals, config.ZEV.GridMeterID, data, 1)

\* collectInverterData: the samples of one sensor, from sample i on
RECURSIVE collectInverterSamplesDeliveryChecked(_, _, _)
RECURSIVE collectInverterSamples(_, _, _)
collectInverterSamplesDeliveryChecked(intervals, samples, i) ==
    IF i > Len(samples) THEN intervals
    ELSE LET current == samples[i]
             previous == samples[i - 1]
             interval == findInterval(intervals, current.CreatedAt)
             delivery == current.CurrentEnergyDeliveryTariff1
                         - previous.CurrentEnergyDeliveryTariff1
             purchase == current.CurrentEnergyPurchaseTariff1
                         - previous.CurrentEnergyPurchaseTariff1
             skip == \/ interval = 0
                     \/ delivery > MaxProductionReadingWh \/ delivery < 0
         IN  collectInverterSamplesDeliveryChecked(
                 IF skip THEN intervals
                 ELSE AddTo(intervals, interval, "InverterGeneratedPower",
                            delivery - purchase),
                 samples, i + 1)

collectInverterSamples(intervals, samples, i) ==
    IF i > Len(samples) THEN intervals
    ELSE LET current == samples[i]
             previous == samples[i - 1]
             interval == findInterval(intervals, current.CreatedAt)
             delivery == current.CurrentEnergyDeliveryTariff1
                         - previous.CurrentEnergyDeliveryTariff1
             purchase == current.CurrentEnergyPurchaseTariff1
                         - previous.CurrentEnergyPurchaseTariff1
             skip == \/ interval = 0
                     \/ delivery > MaxProductionReadingWh \/ delivery < 0
                     \/ purchase > MaxProductionReadingWh \/ purchase < 0
         IN  collectInverterSamples(
                 IF skip THEN intervals
                 ELSE AddTo(intervals, interval, "InverterGeneratedPower",
                            delivery - purchase),
                 samples, i + 1)

RECURSIVE collectInverterEntries(_, _, _, _)
collectInverterEntries(intervals, prodId, data, k) ==
    IF k > Len(data) THEN intervals
    ELSE collectInverterEntries(
             IF data[k].SensorID # prodId THEN intervals
             ELSE collectInverterSamples(intervals, data[k].Data, 2),
             prodId, data, k + 1)

\* ea.collectInverterData(data), from production ID n on
RECURSIVE collectInverterIDs(_, _, _, _)
collectInverterIDs(intervals, ProductionIDs, data, n) ==
    IF n > Len(ProductionIDs) THEN intervals
    ELSE collectInverterIDs(collectInverterEntries(intervals, ProductionIDs[n], data, 1),
                            ProductionIDs, data, n + 1)

collectInverterData(intervals, config, data) ==
    collectInverterIDs(intervals, config.ZEV.ProductionIDs, data, 1)

\* collectBatteryData: the readings 1..len-1 of one battery, from reading i on;
\* invert is sensor.Data.InvertMeasurement
RECURSIVE collectBatterySamples(_, _, _, _)
collectBatterySamples(intervals, invert, data, i) ==
    IF i > Len(data) THEN intervals
    ELSE LET current == data[i]
             interval == findInterval(intervals, current.Date)
             charge == IF invert THEN current.BatteryDischargeWh ELSE current.BatteryChargeWh
             discharge == IF invert THEN current.BatteryChargeWh ELSE current.BatteryDischargeWh
         IN  collectBatterySamples(
                 IF interval = 0 THEN intervals
                 ELSE AddTo(AddTo(intervals, interval, "BatteryCharge", charge),
                            interval, "BatteryDischarge", discharge),
                 invert, data, i + 1)

\* sensor := ea.sensorMap[id]; sensor.Data.InvertMeasurement, for a sensor of the map
InvertMeasurement(sensorMap, id) == sensorMap[id].Data.InvertMeasurement

\* A reading from index 2 on lies in an interval: the loop body reaches the
\* read of sensor.Data
ReachesSensor(intervals, times) ==
    \E i \in 2..Len(times) : findInterval(intervals, times[i]) # 0

\* the loop body of collectBatteryData for one battery, whose sensor is in the map
collectBattery(intervals, sensorMap, batteryId, data) ==
    collectBatterySamples(intervals, InvertMeasurement(sensorMap, batteryId), data, 2)

\* collectBatteryData dereferences a nil sensor
collectBatteryFaults(intervals, sensorMap, batteryId, data) ==
    /\ batteryId \notin DOMAIN sensorMap
    /\ ReachesSensor(intervals, [i \in 1..Len(data) |-> data[i].Date])

\* collectConsumerData: the samples of one sensor, from sample i on
RECURSIVE collectConsumerSamples(_, _, _, _, _)
collectConsumerSamples(intervals, consumerId, invert, samples, i) ==
    IF i > Len(samples) THEN intervals
    ELSE LET current == samples[i]
             previous == samples[i - 1]
             interval == findInterval(intervals, current.CreatedAt)
             usage == IF invert
                      THEN current.CurrentEnergyDeliveryTariff1
                           - previous.CurrentEnergyDeliveryTariff1
                      ELSE current.CurrentEnergyPurchaseTariff1
                           - previous.CurrentEnergyPurchaseTariff1
             skip == interval = 0 \/ usage > MaxConsumerReadingWh
         IN  collectConsumerSamples(
                 IF skip THEN intervals
                 ELSE [intervals EXCEPT ![interval].ConsumerUsage =
                          MapPut(@, consumerId, MapGet(@, consumerId, 0) + usage)],
                 consumerId, invert, samples, i + 1)

RECURSIVE collectConsumerEntries(_, _, _, _, _)
collectConsumerEntries(intervals, consumerId, invert, data, k) ==
    IF k > Len(data) THEN intervals
    ELSE collectConsumerEntries(
             IF data[k].SensorID # consumerId THEN intervals
             ELSE collectConsumerSamples(intervals, consumerId, invert, data[k].Data, 2),
             consumerId, invert, data, k + 1)

\* ea.collectConsumerData(data), from consumer ID n on; the sensors are in the map
RECURSIVE collectConsumerIDs(_, _, _, _, _)
collectConsumerIDs(intervals, sensorMap, ConsumerIDs, data, n) ==
    IF n > Len(ConsumerIDs) THEN intervals
    ELSE collectConsumerIDs(
             collectConsumerEntries(intervals, ConsumerIDs[n],
                 IF ConsumerIDs[n] \in DOMAIN sensorMap
                 THEN InvertMeasurement(sensorMap, ConsumerIDs[n]) ELSE FALSE,
                 data, 1),
             sensorMap, ConsumerIDs, data, n + 1)

collectConsumerData(intervals, sensorMap, config, data) ==
    collectConsumerIDs(intervals, sensorMap, config.ZEV.ConsumerIDs, data, 1)

\* collectConsumerData dereferences a nil sensor: a configured consumer is not
\* in the sensor map and one of its samples from index 1 on lies in an interval
collectConsumerFaults(intervals, sensorMap, config, data) ==
    \E n \in 1..Len(config.ZEV.ConsumerIDs), k \in 1..Len(data) :
        /\ config.ZEV.ConsumerIDs[n] \notin DOMAIN sensorMap
        /\ data[k].SensorID = config.ZEV.ConsumerIDs[n]
        /\ ReachesSensor(intervals,
               [i \in 1..Len(data[k].Data) |-> data[k].Data[i].CreatedAt])

\* float64 amounts that are not whole: exact fractions <<numerator, denominator>>
RECURSIVE GCD(_, _)
GCD(a, b) == IF b = 0 THEN a ELSE GCD(b, a % b)

Abs(x) == IF x < 0 THEN -x ELSE x

Frac(n, d) ==
    LET g == GCD(Abs(n), Abs(d))
        s == IF d < 0 THEN -1 ELSE 1
    IN  <<(s * n) \div g, (s * d) \div g>>

FracAdd(a, b) == Frac(a[1] * b[2] + b[1] * a[2], a[2] * b[2])

FracZero == <<0, 1>>

\* inverterEfficiency in hundredths; 0 stands for "not configured"
DefaultEfficiency == 93
EfficiencyScale == 100

\* &ConsumerStats{}
NewConsumerStats ==
    [Total |-> 0,
     Sources |-> [FromInverter |-> FracZero, FromBattery |-> FracZero,
                  FromGrid |-> FracZero]]

\* sum of the values of a map
RECURSIVE MapSum(_)
MapSum(m) ==
    IF DOMAIN m = {} THEN 0
    ELSE LET k == CHOOSE k \in DOMAIN m : TRUE
         IN  m[k] + MapSum([x \in DOMAIN m \ {k} |-> m[x]])

WithSharedUsageUnconditional(interval) ==
    LET totalInput == interval.GridImport + interval.InverterGeneratedPower
        totalOutput == MapSum(interval.ConsumerUsage) + interval.GridExport
                       + interval.InverterPowerConsumption
        sharedUseEnergy == totalInput - totalOutput
    IN  [interval EXCEPT !.ConsumerUsage = MapPut(@, "shared", sharedUseEnergy)]

WithSharedUsageExportIgnored(interval) ==
    LET totalInput == interval.GridImport + interval.InverterGeneratedPower
        totalOutput == MapSum(interval.ConsumerUsage) + interval.InverterPowerConsumption
        sharedUseEnergy == totalInput - totalOutput
    IN  IF sharedUseEnergy > 0
        THEN [interval EXCEPT !.ConsumerUsage = MapPut(@, "shared", sharedUseEnergy)]
        ELSE interval

\* calculateStats: interval.ConsumerUsage after the shared energy is recorded
WithSharedUsage(interval) ==
    LET totalInput == interval.GridImport + interval.InverterGeneratedPower
        totalOutput == MapSum(interval.ConsumerUsage) + interval.GridExport
                       + interval.InverterPowerConsumption
        sharedUseEnergy == totalInput - totalOutput
    IN  IF sharedUseEnergy > 0
        THEN [interval EXCEPT !.ConsumerUsage = MapPut(@, "shared", sharedUseEnergy)]
        ELSE interval

DistributeUsageGridAlone(consumer, consumerId, usage, interval, config) ==
    LET totalInput == interval.GridImport + interval.InverterGeneratedPower
        inverterEfficiency == IF config.ZEV.InverterEfficiency = 0 THEN DefaultEfficiency
                              ELSE config.ZEV.InverterEfficiency
        battery == interval.BatteryDischarge * inverterEfficiency
        solar == interval.InverterGeneratedPower * EfficiencyScale - battery
        inverterConsuming == interval.InverterGeneratedPower < 0
        clamp == ~inverterConsuming /\ solar < 0
        batteryACContribution == IF clamp
                                 THEN interval.InverterGeneratedPower * EfficiencyScale
                                 ELSE battery
        solarContribution == IF clamp THEN 0 ELSE solar
        den == totalInput * EfficiencyScale
        fromInverter == Frac(usage * solarContribution, den)
        fromBattery == Frac(usage * batteryACContribution, den)
        fromGrid == Frac(usage * interval.GridImport * EfficiencyScale, den)
    IN  IF usage <= 0 THEN consumer
        ELSE IF inverterConsuming /\ consumerId # "shared"
        THEN [Total |-> consumer.Total + usage,
              Sources |-> [FromInverter |-> consumer.Sources.FromInverter,
                           FromBattery |-> FracAdd(consumer.Sources.FromBattery, fromBattery),
                           FromGrid |-> FracAdd(consumer.Sources.FromGrid, fromGrid)]]
        ELSE [Total |-> consumer.Total + usage,
              Sources |-> [FromInverter |-> FracAdd(consumer.Sources.FromInverter, fromInverter),
                           FromBattery |-> FracAdd(consumer.Sources.FromBattery, fromBattery),
                           FromGrid |-> FracAdd(consumer.Sources.FromGrid, fromGrid)]]

DistributeUsageBatteryDC(consumer, consumerId, usage, interval, config) ==
    LET totalInput == interval.GridImport + interval.InverterGeneratedPower
        inverterEfficiency == IF config.ZEV.InverterEfficiency = 0 THEN DefaultEfficiency
                              ELSE config.ZEV.InverterEfficiency
        battery == interval.BatteryDischarge * EfficiencyScale
        solar == interval.InverterGeneratedPower * EfficiencyScale - battery
        inverterConsuming == interval.InverterGeneratedPower < 0
        clamp == ~inverterConsuming /\ solar < 0
        batteryACContribution == IF clamp
                                 THEN interval.InverterGeneratedPower * EfficiencyScale
                                 ELSE battery
        solarContribution == IF clamp THEN 0 ELSE solar
        den == totalInput * EfficiencyScale
        fromInverter == Frac(usage * solarContribution, den)
        fromBattery == Frac(usage * batteryACContribution, den)
        fromGrid == Frac(usage * interval.GridImport * EfficiencyScale, den)
    IN  IF usage <= 0 THEN consumer
        ELSE IF inverterConsuming /\ consumerId # "shared"
        THEN [Total |-> consumer.Total + usage,
              Sources |-> [FromInverter |-> consumer.Sources.FromInverter,
                           FromBattery |-> FracAdd(consumer.Sources.FromBattery, fromBattery),
                           FromGrid |-> FracAdd(consumer.Sources.FromGrid,
                                                FracAdd(fromGrid, fromInverter))]]
        ELSE [Total |-> consumer.Total + usage,
              Sources |-> [FromInverter |-> FracAdd(consumer.Sources.FromInverter, fromInverter),
                           FromBattery |-> FracAdd(consumer.Sources.FromBattery, fromBattery),
                           FromGrid |-> FracAdd(consumer.Sources.FromGrid, fromGrid)]]

DistributeUsageNoClamp(consumer, consumerId, usage, interval, config) ==
    LET totalInput == interval.GridImport + interval.InverterGeneratedPower
        inverterEfficiency == IF config.ZEV.InverterEfficiency = 0 THEN DefaultEfficiency
                              ELSE config.ZEV.InverterEfficiency
        battery == interval.BatteryDischarge * inverterEfficiency
        solar == interval.InverterGeneratedPower * EfficiencyScale - battery
        inverterConsuming == interval.InverterGeneratedPower < 0
        clamp == FALSE
        batteryACContribution == IF clamp
                                 THEN interval.InverterGeneratedPower * EfficiencyScale
                                 ELSE battery
        solarContribution == IF clamp THEN 0 ELSE solar
        den == totalInput * EfficiencyScale
        fromInverter == Frac(usage * solarContribution, den)
        fromBattery == Frac(usage * batteryACContribution, den)
        fromGrid == Frac(usage * interval.GridImport * EfficiencyScale, den)
    IN  IF usage <= 0 THEN consumer
        ELSE IF inverterConsuming /\ consumerId # "shared"
        THEN [Total |-> consumer.Total + usage,
              Sources |-> [FromInverter |-> consumer.Sources.FromInverter,
                           FromBattery |-> FracAdd(consumer.Sources.FromBattery, fromBattery),
                           FromGrid |-> FracAdd(consumer.Sources.FromGrid,
                                                FracAdd(fromGrid, fromInverter))]]
        ELSE [Total |-> consumer.Total + usage,
              Sources |-> [FromInverter |-> FracAdd(consumer.Sources.FromInverter, fromInverter),
                           FromBattery |-> FracAdd(consumer.Sources.FromBattery, fromBattery),
                           FromGrid |-> FracAdd(consumer.Sources.FromGrid, fromGrid)]]

DistributeUsageNoSharedCase(consumer, consumerId, usage, interval, config) ==
    LET totalInput == interval.GridImport + interval.InverterGeneratedPower
        inverterEfficiency == IF config.ZEV.InverterEfficiency = 0 THEN DefaultEfficiency
                              ELSE config.ZEV.InverterEfficiency
        battery == interval.BatteryDischarge * inverterEfficiency
        solar == interval.InverterGeneratedPower * EfficiencyScale - battery
        inverterConsuming == interval.InverterGeneratedPower < 0
        clamp == ~inverterConsuming /\ solar < 0
        batteryACContribution == IF clamp
                                 THEN interval.InverterGeneratedPower * EfficiencyScale
                                 ELSE battery
        solarContribution == IF clamp THEN 0 ELSE solar
        den == totalInput * EfficiencyScale
        fromInverter == Frac(usage * solarContribution, den)
        fromBattery == Frac(usage * batteryACContribution, den)
        fromGrid == Frac(usage * interval.GridImport * EfficiencyScale, den)
    IN  IF usage <= 0 THEN consumer
        ELSE IF FALSE
        THEN [Total |-> consumer.Total + usage,
              Sources |-> [FromInverter |-> consumer.Sources.FromInverter,
                           FromBattery |-> FracAdd(consumer.Sources.FromBattery, fromBattery),
                           FromGrid |-> FracAdd(consumer.Sources.FromGrid,
                                                FracAdd(fromGrid, fromInverter))]]
        ELSE [Total |-> consumer.Total + usage,
              Sources |-> [FromInverter |-> FracAdd(consumer.Sources.FromInverter, fromInverter),
                           FromBattery |-> FracAdd(consumer.Sources.FromBattery, fromBattery),
                           FromGrid |-> FracAdd(consumer.Sources.FromGrid, fromGrid)]]

\* calculateStats: one consumer's statistics after the interval is distributed
DistributeUsage(consumer, consumerId, usage, interval, config) ==
    LET totalInput == interval.GridImport + interval.InverterGeneratedPower
        inverterEfficiency == IF config.ZEV.InverterEfficiency = 0 THEN DefaultEfficiency
                              ELSE config.ZEV.InverterEfficiency
        \* the contributions, in hundredths of a Wh
        battery == interval.BatteryDischarge * inverterEfficiency
        solar == interval.InverterGeneratedPower * EfficiencyScale - battery
        inverterConsuming == interval.InverterGeneratedPower < 0
        clamp == ~inverterConsuming /\ solar < 0
        batteryACContribution == IF clamp
                                 THEN interval.InverterGeneratedPower * EfficiencyScale
                                 ELSE battery
        solarContribution == IF clamp THEN 0 ELSE solar
        den == totalInput * EfficiencyScale
        \* usage * share
        fromInverter == Frac(usage * solarContribution, den)
        fromBattery == Frac(usage * batteryACContribution, den)
        fromGrid == Frac(usage * interval.GridImport * EfficiencyScale, den)
    IN  IF usage <= 0 THEN consumer
        ELSE IF inverterConsuming /\ consumerId # "shared"
        THEN [Total |-> consumer.Total + usage,
              Sources |-> [FromInverter |-> consumer.Sources.FromInverter,
                           FromBattery |-> FracAdd(consumer.Sources.FromBattery, fromBattery),
                           FromGrid |-> FracAdd(consumer.Sources.FromGrid,
                                                FracAdd(fromGrid, fromInverter))]]
        ELSE [Total |-> consumer.Total + usage,
              Sources |-> [FromInverter |-> FracAdd(consumer.Sources.FromInverter, fromInverter),
                           FromBattery |-> FracAdd(consumer.Sources.FromBattery, fromBattery),
                           FromGrid |-> FracAdd(consumer.Sources.FromGrid, fromGrid)]]

AccumulateIntervalCountsUnattributed(stats, interval, config) ==
    LET totalInput == interval.GridImport + interval.InverterGeneratedPower
        usages == WithSharedUsage(interval).ConsumerUsage
    IN  [stats EXCEPT
            !.GridImport = @ + interval.GridImport,
            !.GridExport = @ + interval.GridExport,
            !.Production = @ + interval.InverterGeneratedPower,
            !.Consumption = @ + interval.InverterPowerConsumption,
            !.BatteryCharge = @ + interval.BatteryCharge,
            !.BatteryDischarge = @ + interval.BatteryDischarge,
            !.Consumers = [id \in DOMAIN @ |->
                             IF id \notin DOMAIN usages THEN @[id]
                             ELSE IF totalInput <= 0
                             THEN [@[id] EXCEPT !.Total =
                                     @ + (IF usages[id] > 0 THEN usages[id] ELSE 0)]
                             ELSE DistributeUsage(@[id], id, usages[id], interval, config)]]

\* calculateStats: the loop body for one interval the tariff filter lets through
AccumulateInterval(stats, interval, config) ==
    LET totalInput == interval.GridImport + interval.InverterGeneratedPower
        usages == WithSharedUsage(interval).ConsumerUsage
    IN  [stats EXCEPT
            !.GridImport = @ + interval.GridImport,
            !.GridExport = @ + interval.GridExport,
            !.Production = @ + interval.InverterGeneratedPower,
            !.Consumption = @ + interval.InverterPowerConsumption,
            !.BatteryCharge = @ + interval.BatteryCharge,
            !.BatteryDischarge = @ + interval.BatteryDischarge,
            !.Consumers = IF totalInput <= 0 THEN @
                          ELSE [id \in DOMAIN @ |->
                                  IF id \in DOMAIN usages
                                  THEN DistributeUsage(@[id], id, usages[id], interval, config)
                                  ELSE @[id]]]

\* calculateStats: the loop over ea.intervals from interval i on; gives the
\* statistics and the intervals, whose usage maps the loop writes to
RECURSIVE calculateStatsLoopAll(_, _, _, _, _)
RECURSIVE calculateStatsLoop(_, _, _, _, _)
calculateStatsLoopAll(stats, intervals, config, lowTariff, i) ==
    IF i > Len(intervals) THEN [stats |-> stats, intervals |-> intervals]
    ELSE calculateStatsLoopAll(AccumulateInterval(stats, intervals[i], config),
                               [intervals EXCEPT ![i] = WithSharedUsage(@)],
                               config, lowTariff, i + 1)

calculateStatsLoop(stats, intervals, config, lowTariff, i) ==
    IF i > Len(intervals) THEN [stats |-> stats, intervals |-> intervals]
    ELSE IF isLowTariffHour(config.LowTariff, Hour(intervals[i].Start)) # lowTariff
    THEN calculateStatsLoop(stats, intervals, config, lowTariff, i + 1)
    ELSE calculateStatsLoop(AccumulateInterval(stats, intervals[i], config),
                            [intervals EXCEPT ![i] = WithSharedUsage(@)],
                            config, lowTariff, i + 1)

\* stats := &EnergyStats{} with the period and the consumer statistics set up
NewEnergyStats(intervals, config) ==
    [Period |-> IF Len(intervals) > 0
                THEN [Start |-> intervals[1].Start, End |-> intervals[Len(intervals)].End]
                ELSE [Start |-> 0, End |-> 0],
     GridImport |-> 0, GridExport |-> 0, Production |-> 0, Consumption |-> 0,
     BatteryCharge |-> 0, BatteryDischarge |-> 0,
     Consumers |-> [id \in { config.ZEV.ConsumerIDs[n] : n \in 1..Len(config.ZEV.ConsumerIDs) }
                            \cup {"shared"} |-> NewConsumerStats]]

\* ea.calculateStats(lowTariff)
calculateStats(intervals, config, lowTariff) ==
    calculateStatsLoop(NewEnergyStats(intervals, config), intervals, config, lowTariff, 1)

\* calculateStats reads consumer.Sensor.Tag.Name of a nil sensor: a configured
\* consumer that is not in the sensor map has positive usage in an interval of
\* the tariff with positive total input
calculateStatsFaults(intervals, sensorMap, config, lowTariff) ==
    \E i \in 1..Len(intervals), n \in 1..Len(config.ZEV.ConsumerIDs) :
        /\ isLowTariffHour(config.LowTariff, Hour(intervals[i].Start)) = lowTariff
        /\ intervals[i].GridImport + intervals[i].InverterGeneratedPower > 0
        /\ config.ZEV.ConsumerIDs[n] \notin DOMAIN sensorMap
        \* consumerStats["shared"] always gets a sensor of its own
        /\ config.ZEV.ConsumerIDs[n] # "shared"
        /\ MapGet(intervals[i].ConsumerUsage, config.ZEV.ConsumerIDs[n], 0) > 0

(***************************************************************************)
(* EnergyAnalyzer.Analyze, step by step.  The DataFetcher it calls is the  *)
(* interface of energy.go: each fetch returns readings or an error.        *)
(***************************************************************************)
\* (*EnergyStats)(nil)
NoStats == [nil |-> TRUE]

\* Analyze, entry: the efficiency check
Analyze(from, to) ==
    /\ an.pc = "idle"
    /\ LET eff == an.config.ZEV.InverterEfficiency
       IN  an' = [an EXCEPT
                    !.pc = IF eff # 0 /\ (eff < 0 \/ eff > EfficiencyScale)
                           THEN "done" ELSE "sensors",
                    !.err = IF eff # 0 /\ (eff < 0 \/ eff > EfficiencyScale)
                            THEN "config" ELSE "",
                    !.from = from, !.to = to, !.calls = @ + 1,
                    !.fetches = <<>>, !.low = NoStats, !.high = NoStats]
    /\ UNCHANGED <<alg, now, cache, disk, call, api, src, cc, fs>>

\* ea.loadSensors(smId) succeeds, then ea.createIntervals(from, to)
AnalyzeLoadSensors(sensors) ==
    /\ an.pc = "sensors"
    /\ an' = [an EXCEPT
                !.pc = "zev",
                !.fetches = Append(@, "sensors"),
                !.sensorMap = [id \in DOMAIN @ \cup DOMAIN sensors |->
                                 IF id \in DOMAIN sensors THEN sensors[id] ELSE @[id]],
                !.intervals = createIntervals(@, an.from, an.to)]
    /\ UNCHANGED <<alg, now, cache, disk, call, api, src, cc, fs>>

\* ea.client.GetSensors fails
AnalyzeLoadSensorsFail ==
    /\ an.pc = "sensors"
    /\ an' = [an EXCEPT !.pc = "done", !.err = "sensors",
                        !.fetches = Append(@, "sensors")]
    /\ UNCHANGED <<alg, now, cache, disk, call, api, src, cc, fs>>

\* ea.client.GetZevData succeeds; collectGridData, collectInverterData,
\* collectConsumerData
AnalyzeZev(data) ==
    /\ an.pc = "zev"
    /\ LET grid == collectGridData(an.intervals, an.config, data)
           inverter == collectInverterData(grid, an.config, data)
       IN  IF collectConsumerFaults(inverter, an.sensorMap, an.config, data)
           THEN an' = [an EXCEPT !.pc = "fault", !.fetches = Append(@, "zev")]
           ELSE an' = [an EXCEPT
                         !.pc = "battery",
                         !.fetches = Append(@, "zev"),
                         !.batteries = an.config.ZEV.BatterySystemIDs,
                         !.intervals = collectConsumerData(inverter, an.sensorMap,
                                                           an.config, data)]
    /\ UNCHANGED <<alg, now, cache, disk, call, api, src, cc, fs>>

\* ea.client.GetZevData fails: return nil, nil, err
AnalyzeZevFail ==
    /\ an.pc = "zev"
    /\ an' = [an EXCEPT !.pc = "done", !.err = "upstream",
                        !.fetches = Append(@, "zev")]
    /\ UNCHANGED <<alg, now, cache, disk, call, api, src, cc, fs>>

\* collectBatteryData: ea.client.GetSensorData for the next battery succeeds
AnalyzeBattery(data) ==
    /\ an.pc = "battery"
    /\ an.batteries # <<>>
    /\ LET batteryId == Head(an.batteries)
       IN  IF collectBatteryFaults(an.intervals, an.sensorMap, batteryId, data)
           THEN an' = [an EXCEPT !.pc = "fault", !.fetches = Append(@, batteryId)]
           ELSE an' = [an EXCEPT
                         !.batteries = Tail(@),
                         !.fetches = Append(@, batteryId),
                         !.intervals =
                            IF batteryId \in DOMAIN an.sensorMap
                            THEN collectBattery(@, an.sensorMap, batteryId, data)
                            ELSE @]
    /\ UNCHANGED <<alg, now, cache, disk, call, api, src, cc, fs>>

\* collectBatteryData: ea.client.GetSensorData fails
AnalyzeBatteryFail ==
    /\ an.pc = "battery"
    /\ an.batteries # <<>>
    /\ an' = [an EXCEPT !.pc = "done", !.err = "upstream",
                        !.fetches = Append(@, Head(an.batteries))]
    /\ UNCHANGED <<alg, now, cache, disk, call, api, src, cc, fs>>

\* calculateStats(true), calculateStats(false), return
AnalyzeStats ==
    /\ an.pc = "battery"
    /\ an.batteries = <<>>
    /\ LET low == calculateStats(an.intervals, an.config, TRUE)
           high == calculateStats(low.intervals, an.config, FALSE)
       IN  IF \/ calculateStatsFaults(an.intervals, an.sensorMap, an.config, TRUE)
              \/ calculateStatsFaults(low.intervals, an.sensorMap, an.config, FALSE)
           THEN an' = [an EXCEPT !.pc = "fault"]
           ELSE an' = [an EXCEPT !.pc = "done", !.low = low.stats, !.high = high.stats,
                                 !.intervals = high.intervals]
    /\ UNCHANGED <<alg, now, cache, disk, call, api, src, cc, fs>>

\* the caller takes the statistics or the error
AnalyzeReturn ==
    /\ an.pc = "done"
    /\ an' = [an EXCEPT !.pc = "idle"]
    /\ UNCHANGED <<alg, now, cache, disk, call, api, src, cc, fs>>

(***************************************************************************)
(* The configurations, windows and readings of the analysis runs           *)
(***************************************************************************)
\* sampling period of the meters, and the first and last sample of a run
StepSeconds == IntervalSeconds \div 2
AnTimes == { StepSeconds * k : k \in MinStep..MaxStep }

LowTariffs == { [StartHour |-> 21, EndHour |-> 6], [StartHour |-> 1, EndHour |-> 2] }
Efficiencies == {0, 50, 150}

Configs ==
    { [LowTariff |-> lt,
       ZEV |-> [GridMeterID |-> "g1", ProductionIDs |-> <<"p1">>,
                ConsumerIDs |-> <<"c1">>, BatterySystemIDs |-> <<"b1">>,
                InverterEfficiency |-> eff]] : lt \in LowTariffs, eff \in Efficiencies }

\* models.Sensor, as far as Analyze reads it
Sensor(invert) == [Data |-> [InvertMeasurement |-> invert]]

\* The sensor lists GetSensors may return, as maps from ID to sensor
Catalogs ==
    { [id \in {"g1", "p1", "c1", "b1"} |-> Sensor(FALSE)],
      [id \in {"g1", "p1", "c1", "b1"} |-> Sensor(id \in {"c1", "b1"})],
      [id \in {"g1", "p1"} |-> Sensor(FALSE)] }

\* The sample times of a window, ascending
RECURSIVE TimesFrom(_, _)
TimesFrom(t, to) ==
    IF t > to \/ t > StepSeconds * MaxStep THEN <<>>
    ELSE <<t>> \o TimesFrom(t + StepSeconds, to)

SampleTimes(from, to) ==
    TimesFrom(IF from > StepSeconds * MinStep THEN from ELSE StepSeconds * MinStep, to)

\* The readings of one meter: counters that grow by incP and incD per sample
ZevSeries(id, from, to, incP, incD) ==
    LET times == SampleTimes(from, to)
    IN  [SensorID |-> id,
         Data |-> [i \in 1..Len(times) |->
                     [CreatedAt |-> times[i],
                      CurrentEnergyPurchaseTariff1 |-> 1000 + i * incP,
                      CurrentEnergyDeliveryTariff1 |-> 1000 + i * incD]]]

ZevDatasets(from, to) ==
    { <<ZevSeries("g1", from, to, g[1], g[2]),
        ZevSeries("p1", from, to, p[1], p[2]),
        ZevSeries("c1", from, to, c, 0)>> :
        g \in {<<200, 0>>, <<0, 100>>}, p \in {<<0, 300>>, <<50, 0>>}, c \in {0, 100} }

BatteryDatasets(from, to) ==
    LET times == SampleTimes(from, to)
    IN  { [i \in 1..Len(times) |->
             [Date |-> times[i], BatteryChargeWh |-> b[1], BatteryDischargeWh |-> b[2]]] :
          b \in {<<100, 0>>, <<0, 300>>} }

InitAnalyze ==
    /\ now = DayStart(0)
    /\ cache = NewCache
    /\ disk = NewCache
    /\ call = IdleCall
    /\ api = IdleApi
    /\ alg = IdleAlg
    /\ src = <<"analyze", "">>
    /\ cc = [enabled |-> TRUE, client |-> "exact"]
    /\ fs = IdleFs
    /\ an \in { [IdleAn EXCEPT !.config = c] : c \in Configs }

NextAnalyze ==
    \/ (an.pc = "idle" /\ an.calls = 0 /\ \E from \in AnTimes, to \in AnTimes : Analyze(from, to))
    \/ (an.pc = "sensors" /\ \E sensors \in Catalogs : AnalyzeLoadSensors(sensors))
    \/ AnalyzeLoadSensorsFail
    \/ (an.pc = "zev" /\ \E data \in ZevDatasets(an.from, an.to) : AnalyzeZev(data))
    \/ AnalyzeZevFail
    \/ (an.pc = "battery" /\ \E data \in BatteryDatasets(an.from, an.to) : AnalyzeBattery(data))
    \/ AnalyzeBatteryFail
    \/ AnalyzeStats
    \/ AnalyzeReturn

SpecAnalyze == InitAnalyze /\ [][NextAnalyze]_vars

(***************************************************************************)
(* The cache file: Cache.Save and Load (persistence)                       *)
(***************************************************************************)
\* path and path + ".tmp"
cachePath == "path"
tmpPathSame == "path"
tmpPath == "tmp"

\* What gob encodes: the cache with its metadata
Snapshot(smID, c, clock) == [SmID |-> smID, LastUpdated |-> clock, cache |-> c]

\* A file that holds the first `written` of the Chunks writes of a snapshot
File(snap, written) == [exists |-> TRUE, snap |-> snap, written |-> written]

Complete(file) == file.exists /\ file.written = Chunks

\* os.Remove(tmpPath), whose error Save ignores
Remove(files, ok) == IF ok THEN [files EXCEPT ![tmpPath] = NoFile] ELSE files

\* c.Save(path), entry: c.Metadata.LastUpdated = time.Now()
SaveBegin ==
    /\ fs.pc = "idle"
    /\ fs' = [fs EXCEPT !.pc = "create", !.err = FALSE,
                        !.snap = Snapshot(fs.SmID, cache, now),
                        !.prev = fs.files[cachePath],
                        !.load = [op |-> "none"]]
    /\ UNCHANGED <<alg, now, cache, disk, call, api, src, cc, an>>

\* os.Create(tmpPath): an empty file, or an error
SaveCreate(ok) ==
    /\ fs.pc = "create"
    /\ fs' = IF ok THEN [fs EXCEPT !.pc = "encode", !.files[tmpPath] = File(fs.snap, 0)]
             ELSE [fs EXCEPT !.pc = "idle", !.err = TRUE]
    /\ UNCHANGED <<alg, now, cache, disk, call, api, src, cc, an>>

\* encoder.Encode(c): one more write reaches the file
SaveEncode ==
    /\ fs.pc = "encode"
    /\ LET written == fs.files[tmpPath].written + 1
       IN  fs' = [fs EXCEPT !.files[tmpPath] = File(fs.snap, written),
                           !.pc = IF written = Chunks THEN "close" ELSE "encode"]
    /\ UNCHANGED <<alg, now, cache, disk, call, api, src, cc, an>>

\* encoder.Encode fails: file.Close(), os.Remove(tmpPath), return the error
SaveEncodeFail(removeOk) ==
    /\ fs.pc = "encode"
    /\ fs' = [fs EXCEPT !.pc = "idle", !.err = TRUE, !.files = Remove(@, removeOk)]
    /\ UNCHANGED <<alg, now, cache, disk, call, api, src, cc, an>>

\* file.Close()
SaveClose(ok, removeOk) ==
    /\ fs.pc = "close"
    /\ fs' = IF ok THEN [fs EXCEPT !.pc = "rename"]
             ELSE [fs EXCEPT !.pc = "idle", !.err = TRUE, !.files = Remove(@, removeOk)]
    /\ UNCHANGED <<alg, now, cache, disk, call, api, src, cc, an>>

\* os.Rename(tmpPath, path): the file takes the place of the cache file in
\* one step, or the rename fails
SaveRename(ok, removeOk) ==
    /\ fs.pc = "rename"
    /\ fs' = IF ok
             THEN [fs EXCEPT !.pc = "idle",
                             !.files = [p \in DOMAIN @ |->
                                          IF p = cachePath THEN @[tmpPath]
                                          ELSE IF p = tmpPath THEN NoFile ELSE @[p]]]
             ELSE [fs EXCEPT !.pc = "idle", !.err = TRUE, !.files = Remove(@, removeOk)]
    /\ disk' = IF ok THEN cache ELSE disk
    /\ UNCHANGED <<alg, now, cache, call, api, src, cc, an>>

\* cc.ClearCache(), entry: cc.cache.Clear(), then Save begins with the empty
\* cache
ClearCacheBegin ==
    /\ fs.pc = "idle"
    /\ cache' = Clear(cache)
    /\ fs' = [fs EXCEPT !.pc = "create", !.err = FALSE,
                        !.snap = Snapshot(fs.SmID, Clear(cache), now),
                        !.prev = fs.files[cachePath],
                        !.load = [op |-> "none"]]
    /\ UNCHANGED <<alg, now, disk, call, api, src, cc, an>>

\* Delete(path): os.Remove(path); a file that is not there is no error.  No
\* Save is in progress: snap and prev are those of no Save
Delete(ok) ==
    /\ fs.pc = "idle"
    /\ fs' = IF ok THEN [fs EXCEPT !.files[cachePath] = NoFile, !.err = FALSE,
                                   !.snap = NoFile, !.prev = NoFile,
                                   !.load = [op |-> "none"]]
             ELSE [fs EXCEPT !.err = fs.files[cachePath].exists]
    /\ disk' = IF ok THEN NewCache ELSE disk
    /\ UNCHANGED <<alg, now, cache, call, api, src, cc, an>>

\* the process dies in the middle of Save; the files stay as they are
Crash ==
    /\ fs.pc \in {"create", "encode", "close", "rename"}
    /\ fs' = [fs EXCEPT !.pc = "dead"]
    /\ UNCHANGED <<alg, now, cache, disk, call, api, src, cc, an>>

\* if smID != "" && cache.Metadata.SmID != smID
SmIDMismatchAlways(smID, stored) == stored # smID
SmIDMismatch(smID, stored) == smID # "" /\ stored # smID

\* Load(path, smID): the cache and the error it returns
LoadResult(file, smID, openOk) ==
    IF ~file.exists THEN [err |-> "", SmID |-> smID, cache |-> NewCache]
    ELSE IF ~openOk THEN [err |-> "open"]
    ELSE IF ~Complete(file) THEN [err |-> "decode"]
    ELSE IF SmIDMismatch(smID, file.snap.SmID) THEN [err |-> "mismatch"]
    ELSE [err |-> "", SmID |-> file.snap.SmID, cache |-> file.snap.cache]

\* A process starts: NewCachedClient calls Load(cachePath, smID)
Load(smID, openOk) ==
    /\ fs.pc \in {"idle", "dead"}
    /\ LET res == LoadResult(fs.files[cachePath], smID, openOk)
       IN  /\ fs' = [fs EXCEPT !.pc = IF res.err = "" THEN "idle" ELSE "dead",
                               !.SmID = IF res.err = "" THEN res.SmID ELSE @,
                               !.load = [op |-> "load", smID |-> smID, openOk |-> openOk,
                                         file |-> fs.files[cachePath], res |-> res]]
           /\ cache' = IF res.err = "" THEN res.cache ELSE cache
    /\ UNCHANGED <<alg, now, disk, call, api, src, cc, an>>

SmIDs == {"s1", "s2"}

\* A process of one site with an empty cache and no cache file yet, on a day
\* with HorizonDay past days to cache
InitSave ==
    /\ now = DayStart(HorizonDay)
    /\ cache = NewCache
    /\ disk = NewCache
    /\ call = IdleCall
    /\ api = IdleApi
    /\ alg = IdleAlg
    /\ src = <<"zev", "">>
    /\ cc = [enabled |-> TRUE, client |-> "exact"]
    /\ fs \in { [IdleFs EXCEPT !.SmID = id] : id \in SmIDs }
    /\ an = IdleAn

NextSave ==
    \/ (fs.pc = "idle" /\ \E d \in Days : ApiMark(DayStart(d), DayStart(d)))
    \/ SaveBegin
    \/ ClearCacheBegin
    \/ \E ok \in BOOLEAN : Delete(ok)
    \/ \E ok \in BOOLEAN : SaveCreate(ok)
    \/ SaveEncode
    \/ \E removeOk \in BOOLEAN : SaveEncodeFail(removeOk)
    \/ \E ok \in BOOLEAN, removeOk \in BOOLEAN : SaveClose(ok, removeOk)
    \/ \E ok \in BOOLEAN, removeOk \in BOOLEAN : SaveRename(ok, removeOk)
    \/ Crash
    \/ \E smID \in SmIDs \cup {""}, openOk \in BOOLEAN : Load(smID, openOk)

SpecSave == InitSave /\ [][NextSave]_vars

(***************************************************************************)
(* The collectors on readings with implausible deltas and counter resets   *)
(***************************************************************************)
\* The steps <<purchase delta, delivery delta>> a meter's counters may take
\* from one sample to the next
CounterSteps ==
    { <<500, 1100>>, <<600, 100>>, <<-5, 100>>, <<100, -5>>,
      <<MaxProductionReadingWh, MaxProductionReadingWh>>,
      <<MaxProductionReadingWh + 1, 100>>, <<100, MaxProductionReadingWh + 1>>,
      <<MaxGridReadingDiffWh, 0>>, <<MaxGridReadingDiffWh + 1, 0>>,
      <<0, MaxGridReadingDiffWh + 1>> }

\* The samples of a meter, half an interval apart from time t on; the counters
\* start at purchase and delivery and take the steps from step n on
RECURSIVE CounterSeries(_, _, _, _, _)
CounterSeries(t, purchase, delivery, steps, n) ==
    <<[CreatedAt |-> t, CurrentEnergyPurchaseTariff1 |-> purchase,
       CurrentEnergyDeliveryTariff1 |-> delivery]>>
    \o (IF n > Len(steps) THEN <<>>
        ELSE CounterSeries(t + StepSeconds, purchase + steps[n][1],
                           delivery + steps[n][2], steps, n + 1))

\* What GetZevData may return for a window that starts at from: four samples
\* of the meter, whose delivery counter starts at 0 or not
CounterDatasets(id, from) ==
    { <<[SensorID |-> id, Data |-> CounterSeries(from, 1000, first, steps, 1)]>> :
        first \in {0, 1000}, steps \in CounterSteps \X CounterSteps \X CounterSteps }

CollectConfig ==
    [LowTariff |-> [StartHour |-> 21, EndHour |-> 6],
     ZEV |-> [GridMeterID |-> "g1", ProductionIDs |-> <<"p1">>,
              ConsumerIDs |-> <<"c1">>, BatterySystemIDs |-> <<"b1">>,
              InverterEfficiency |-> 0]]

\* Analyze, from createIntervals to collectConsumerData, on the readings of
\* one meter: the intervals after the three collectors and the error returned
AlgCollect(id, invert, from, to, data) ==
    /\ alg.op = "none"
    /\ LET sensorMap == [s \in {"g1", "p1", "c1", "b1"} |-> Sensor(invert)]
           created == createIntervals(<<>>, from, to)
           grid == collectGridData(created, CollectConfig, data)
           inverter == collectInverterData(grid, CollectConfig, data)
           consumer == collectConsumerData(inverter, sensorMap, CollectConfig, data)
       IN  alg' = [op |-> "collect", id |-> id, invert |-> invert,
                   samples |-> data[1].Data, intervals |-> consumer, err |-> ""]
    /\ UNCHANGED <<now, cache, disk, call, api, src, cc, fs, an>>

AlgCollected ==
    /\ alg.op = "collect"
    /\ alg' = IdleAlg
    /\ UNCHANGED <<now, cache, disk, call, api, src, cc, fs, an>>

\* the windows end with the last sample or after it
NextCollect ==
    \/ \E m \in {<<"g1", FALSE>>, <<"p1", FALSE>>, <<"c1", FALSE>>, <<"c1", TRUE>>},
          n \in {3, 4} :
         \E data \in CounterDatasets(m[1], StepSeconds * MinStep) :
            AlgCollect(m[1], m[2], StepSeconds * MinStep, StepSeconds * (MinStep + n), data)
    \/ AlgCollected

InitCollect ==
    /\ now = DayStart(0)
    /\ cache = NewCache
    /\ disk = NewCache
    /\ call = IdleCall
    /\ api = IdleApi
    /\ alg = IdleAlg
    /\ src = <<"analyze", "">>
    /\ cc = [enabled |-> TRUE, client |-> "exact"]
    /\ fs = IdleFs
    /\ an = IdleAn

SpecCollect == InitCollect /\ [][NextCollect]_vars

(***************************************************************************)
(* Analysis runs with configurations a config file can hold                *)
(***************************************************************************)
\* config.Load takes the file's values as they are: the grid meter ID may be
\* empty and the efficiency any number
LoadedConfigs ==
    { [LowTariff |-> lt,
       ZEV |-> [GridMeterID |-> grid, ProductionIDs |-> <<"p1">>,
                ConsumerIDs |-> <<"c1">>, BatterySystemIDs |-> <<"b1">>,
                InverterEfficiency |-> eff]] :
        lt \in LowTariffs, grid \in {"g1", ""},
        eff \in {0, 50, EfficiencyScale + 50, -10} }

InitLoaded ==
    /\ now = DayStart(0)
    /\ cache = NewCache
    /\ disk = NewCache
    /\ call = IdleCall
    /\ api = IdleApi
    /\ alg = IdleAlg
    /\ src = <<"analyze", "">>
    /\ cc = [enabled |-> TRUE, client |-> "exact"]
    /\ fs = IdleFs
    /\ an \in { [IdleAn EXCEPT !.config = c] : c \in LoadedConfigs }

SpecLoaded == InitLoaded /\ [][NextAnalyze]_vars

(***************************************************************************)
(* calculateStats on intervals as the collectors can leave them            *)
(***************************************************************************)
\* An interval with the amounts the collectors have added to it; the usage
\* map holds the consumers that had a sample in the interval
FilledInterval(start, gridImport, gridExport, inverterNet, discharge, usage) ==
    [IntervalData(start, start + IntervalSeconds) EXCEPT
        !.GridImport = gridImport, !.GridExport = gridExport,
        !.InverterGeneratedPower = inverterNet,
        !.BatteryDischarge = discharge, !.ConsumerUsage = usage]

\* The usage maps of two consumers: no sample, a negative delta, a positive one
UsageMaps ==
    { [id \in ids |-> IF id = "c1" THEN u1 ELSE 50] :
        ids \in SUBSET {"c1", "c2"}, u1 \in {-20, 100} }

FilledIntervals(start) ==
    { FilledInterval(start, gi, ge, inv, dis, usage) :
        gi \in {0, 400}, ge \in {0, 100}, inv \in {-100, 0, 500, 600},
        dis \in {0, 200, 1000}, usage \in UsageMaps }

\* A second interval: a producing, a consuming and an idle one
SecondIntervals(start) ==
    { FilledInterval(start, 400, 0, 600, 200, [id \in {"c1", "c2"} |-> 100]),
      FilledInterval(start, 400, 0, -100, 0, [id \in {"c1"} |-> 100]),
      FilledInterval(start, 0, 0, 0, 0, [id \in {"c2"} |-> 50]) }

StatsConfigs ==
    { [LowTariff |-> lt,
       ZEV |-> [GridMeterID |-> "g1", ProductionIDs |-> <<"p1">>,
                ConsumerIDs |-> <<"c1", "c2">>, BatterySystemIDs |-> <<"b1">>,
                InverterEfficiency |-> eff]] :
        lt \in LowTariffs, eff \in {0, 50, EfficiencyScale} }

\* Analyze after collectBatteryData, before calculateStats
InitStats ==
    /\ now = DayStart(0)
    /\ cache = NewCache
    /\ disk = NewCache
    /\ call = IdleCall
    /\ api = IdleApi
    /\ alg = IdleAlg
    /\ src = <<"analyze", "">>
    /\ cc = [enabled |-> TRUE, client |-> "exact"]
    /\ fs = IdleFs
    /\ \E c \in StatsConfigs :
       \E a \in FilledIntervals(SecondsPerHour - IntervalSeconds) :
       \E b \in SecondIntervals(SecondsPerHour) :
          an = [IdleAn EXCEPT
                  !.pc = "battery", !.config = c,
                  !.from = SecondsPerHour - IntervalSeconds,
                  !.to = SecondsPerHour + IntervalSeconds,
                  !.calls = 1,
                  !.sensorMap = [id \in {"g1", "p1", "c1", "c2", "b1"} |-> Sensor(FALSE)],
                  !.intervals = <<a, b>>,
                  !.fetches = <<"sensors", "zev", "b1">>]

NextStats ==
    \/ AnalyzeStats
    \/ AnalyzeReturn

SpecStats == InitStats /\ [][NextStats]_vars

(***************************************************************************)
(* Several Analyze calls on one analyzer, against an upstream whose        *)
(* readings do not change                                                  *)
(***************************************************************************)
\* What the upstream returns for a window
SteadySensors == [id \in {"g1", "p1", "c1", "b1"} |-> Sensor(FALSE)]

SteadyZevData(from, to) ==
    <<ZevSeries("g1", from, to, 200, 0), ZevSeries("p1", from, to, 0, 300),
      ZevSeries("c1", from, to, 100, 0)>>

SteadyBatteryData(from, to) ==
    LET times == SampleTimes(from, to)
    IN  [i \in 1..Len(times) |->
           [Date |-> times[i], BatteryChargeWh |-> 0, BatteryDischargeWh |-> 300]]

InitRepeat ==
    /\ now = DayStart(0)
    /\ cache = NewCache
    /\ disk = NewCache
    /\ call = IdleCall
    /\ api = IdleApi
    /\ alg = IdleAlg
    /\ src = <<"analyze", "">>
    /\ cc = [enabled |-> TRUE, client |-> "exact"]
    /\ fs = IdleFs
    /\ an \in { [IdleAn EXCEPT !.config = c] :
                   c \in { c \in Configs : c.ZEV.InverterEfficiency = 0 } }

NextRepeat ==
    \/ (an.pc = "idle" /\ an.calls < MaxCalls
          /\ \E from \in AnTimes, to \in AnTimes : Analyze(from, to))
    \/ (an.pc = "sensors" /\ AnalyzeLoadSensors(SteadySensors))
    \/ AnalyzeLoadSensorsFail
    \/ (an.pc = "zev" /\ AnalyzeZev(SteadyZevData(an.from, an.to)))
    \/ AnalyzeZevFail
    \/ (an.pc = "battery" /\ AnalyzeBattery(SteadyBatteryData(an.from, an.to)))
    \/ AnalyzeBatteryFail
    \/ AnalyzeStats
    \/ AnalyzeReturn

SpecRepeat == InitRepeat /\ [][NextRepeat]_vars

(***************************************************************************)
(* collectBatteryData on the readings of one battery                       *)
(***************************************************************************)
\* <<charge, discharge>> of a battery reading
BatteryAmounts == { <<100, 0>>, <<0, 300>>, <<50, 20>> }

\* What GetSensorData may return: three readings, half an interval apart from
\* the window's start on
BatteryReadings(from) ==
    { [i \in 1..3 |->
         [Date |-> from + (i - 1) * StepSeconds,
          BatteryChargeWh |-> amounts[i][1], BatteryDischargeWh |-> amounts[i][2]]] :
        amounts \in BatteryAmounts \X BatteryAmounts \X BatteryAmounts }

\* createIntervals and collectBatteryData for one battery whose sensor is in
\* the sensor map
AlgCollectBattery(invert, from, to, data) ==
    /\ alg.op = "none"
    /\ alg' = [op |-> "battery", invert |-> invert, readings |-> data,
               intervals |-> collectBattery(createIntervals(<<>>, from, to),
                                            [id \in {"b1"} |-> Sensor(invert)], "b1", data)]
    /\ UNCHANGED <<now, cache, disk, call, api, src, cc, fs, an>>

AlgBatteryCollected ==
    /\ alg.op = "battery"
    /\ alg' = IdleAlg
    /\ UNCHANGED <<now, cache, disk, call, api, src, cc, fs, an>>

NextBattery ==
    \/ \E invert \in BOOLEAN, from \in AnTimes, to \in AnTimes :
         \E data \in BatteryReadings(from) : AlgCollectBattery(invert, from, to, data)
    \/ AlgBatteryCollected

SpecBattery == InitCollect /\ [][NextBattery]_vars

(***************************************************************************)
(* The analyzer's pure functions on their own                              *)
(***************************************************************************)
\* from and to of a window: whole and half intervals, on and off the second
WindowTimes == { StepSeconds * k + o : k \in 0..MaxStep, o \in {0, 1} }

Hours == 0..(HoursPerDay - 1)

\* ea.createIntervals(from, to) of a new analyzer
AlgCreateIntervals(from, to) ==
    /\ alg.op = "none"
    /\ alg' = [op |-> "intervals", from |-> from, to |-> to,
               intervals |-> createIntervals(<<>>, from, to)]
    /\ UNCHANGED <<now, cache, disk, call, api, src, cc, fs, an>>

\* ea.isLowTariffHour(hour) of an analyzer configured with a window
AlgIsLowTariffHour(start, end, hour) ==
    /\ alg.op = "none"
    /\ alg' = [op |-> "tariff", LowTariff |-> [StartHour |-> start, EndHour |-> end],
               hour |-> hour,
               low |-> isLowTariffHour([StartHour |-> start, EndHour |-> end], hour)]
    /\ UNCHANGED <<now, cache, disk, call, api, src, cc, fs, an>>

AlgDone ==
    /\ alg.op \in {"intervals", "tariff"}
    /\ alg' = IdleAlg
    /\ UNCHANGED <<now, cache, disk, call, api, src, cc, fs, an>>

InitPure ==
    /\ now = DayStart(0)
    /\ cache = NewCache
    /\ disk = NewCache
    /\ call = IdleCall
    /\ api = IdleApi
    /\ alg = IdleAlg
    /\ src = <<"analyze", "">>
    /\ cc = [enabled |-> TRUE, client |-> "exact"]
    /\ fs = IdleFs
    /\ an = IdleAn

NextPure ==
    \/ \E from \in WindowTimes, to \in WindowTimes : AlgCreateIntervals(from, to)
    \/ \E start \in Hours, end \in Hours, hour \in Hours :
          AlgIsLowTariffHour(start, end, hour)
    \/ AlgDone

SpecPure == InitPure /\ [][NextPure]_vars

(***************************************************************************)
(* CachedClient.GetZevData / GetSensorData with caching disabled           *)
(***************************************************************************)
\* The answer of the upstream client for a source
ClientGet(kind, sensorID, from, to, clock) ==
    IF kind = "zev" THEN ClientGetZevData(from, to, clock)
    ELSE ClientGetSensorData(sensorID, from, to, clock)

CallPassThroughStores(kind, sensorID, from, to, ok) ==
    /\ call.pc = "idle"
    /\ ~cc.enabled
    \* a request fails only if one is made
    /\ ~ok => calculateChunks(from, to) # <<>>
    /\ call' = [IdleCall EXCEPT
                  !.pc = IF calculateChunksPanics(from, to) THEN "fault" ELSE "done",
                  !.kind = kind, !.sensorID = sensorID,
                  !.from = from, !.to = to, !.err = ~ok,
                  !.result = IF ok THEN ClientGet(kind, sensorID, from, to, now) ELSE <<>>,
                  !.reqs = <<[from |-> from, to |-> to, isToday |-> FALSE,
                              cached |-> SourceRanges(cache, kind, sensorID)]>>]
    /\ cache' = IF kind = "zev"
                THEN StoreZevData(cache, ClientGet(kind, sensorID, from, to, now), now)
                ELSE StoreSensorData(cache, sensorID,
                                     ClientGet(kind, sensorID, from, to, now), now)
    /\ UNCHANGED <<alg, now, disk, api, src, cc, fs, an>>

\* if !cc.enabled { return cc.client.Get...(smId, from, to) }
CallPassThrough(kind, sensorID, from, to, ok) ==
    /\ call.pc = "idle"
    /\ ~cc.enabled
    \* a request fails only if one is made
    /\ ~ok => calculateChunks(from, to) # <<>>
    /\ call' = [IdleCall EXCEPT
                  !.pc = IF calculateChunksPanics(from, to) THEN "fault" ELSE "done",
                  !.kind = kind, !.sensorID = sensorID,
                  !.from = from, !.to = to, !.err = ~ok,
                  !.result = IF ok THEN ClientGet(kind, sensorID, from, to, now) ELSE <<>>,
                  !.reqs = <<[from |-> from, to |-> to, isToday |-> FALSE,
                              cached |-> SourceRanges(cache, kind, sensorID)]>>]
    /\ UNCHANGED <<alg, now, cache, disk, api, src, cc, fs, an>>

\* A cache that holds a reading and a cached day, as an earlier run with
\* caching enabled may have left it in the cache file
UsedCache ==
    LET stored == StoreZevData(NewCache, <<ZevData("m1", <<ZevPoint(DayStart(0), MaxTick + 1)>>)>>,
                               DayStart(1))
    IN  CHOOSE c \in UpdateZevCachedRanges(stored, DayStart(0), DayStart(0), DayStart(1)) : TRUE

\* NewCachedClient(client, cachePath, smID, false, debug): the cache is
\* NewCache(smID), whatever the cache file holds
InitNoCache ==
    /\ now = DayStart(0)
    /\ cache = NewCache
    /\ disk \in {NewCache, UsedCache}
    /\ call = IdleCall
    /\ api = IdleApi
    /\ alg = IdleAlg
    /\ src \in Sources
    /\ cc = [enabled |-> FALSE, client |-> "exact"]
    /\ fs = IF disk = NewCache THEN IdleFs
            ELSE [IdleFs EXCEPT !.files[cachePath] =
                     File(Snapshot("s1", UsedCache, DayStart(0)), Chunks)]
    /\ an = IdleAn

NextNoCache ==
    \/ Tick
    \/ (call.pc = "idle" /\ \E from \in Ticks, to \in Ticks, ok \in BOOLEAN :
          CallPassThrough(src[1], src[2], from, to, ok))
    \/ Return

SpecNoCache == InitNoCache /\ [][NextNoCache]_vars

(***************************************************************************)
(* Runs that are either calls of the fetcher or an analysis                *)
(***************************************************************************)
InitErrors == Init \/ InitAnalyze

NextErrors ==
    \/ (src \in Sources /\ NextFetch)
    \/ (src \notin Sources /\ NextAnalyze)

SpecErrors == InitErrors /\ [][NextErrors]_vars

(***************************************************************************)
(* Properties of the range algebra (SpecRanges)                            *)
(***************************************************************************)
\* The number of ranges of the list that contain the time x
CoverCount(ranges, x) == Cardinality({ i \in 1..Len(ranges) : Contains(ranges[i], x) })

\* No two ranges of the list overlap
NonOverlapping(ranges) ==
    \A i \in 1..Len(ranges), j \in 1..Len(ranges) :
        i # j => ~Overlaps(ranges[i], ranges[j])

\* No range of a overlaps a range of b
Disjoint(a, b) ==
    \A i \in 1..Len(a), j \in 1..Len(b) : ~Overlaps(a[i], b[j])

\* C1, as stated: for valid (cached, from, to) every time of the window
\* [from, to) lies in exactly one range of FindGaps(cached, from, to) and cached
\* together, and the gaps are pairwise disjoint and disjoint from cached.
C1_CoversWindowOnce ==
    (alg.op = "gaps" /\ NonOverlapping(alg.ranges)) =>
        /\ \A x \in Ticks :
              (~Before(x, alg.from) /\ Before(x, alg.to)) =>
                  CoverCount(alg.out \o alg.ranges, x) = 1
        /\ NonOverlapping(alg.out)
        /\ Disjoint(alg.out, alg.ranges)

\* C1, amended: every time of the window [from, to) that is before today lies
\* in exactly one range of FindGaps(cached, from, to) and cached together, and
\* the gaps are pairwise disjoint and disjoint from cached.
C1_CoversPastWindowOnce ==
    (alg.op = "gaps" /\ NonOverlapping(alg.ranges)) =>
        /\ \A x \in Ticks :
              (~Before(x, alg.from) /\ Before(x, alg.to) /\ Before(x, Today(alg.clock))) =>
                  CoverCount(alg.out \o alg.ranges, x) = 1
        /\ NonOverlapping(alg.out)
        /\ Disjoint(alg.out, alg.ranges)

\* FindGaps has split a window that reaches today around a cached range
C1_Witness ==
    /\ alg.op = "gaps"
    /\ NonOverlapping(alg.ranges)
    /\ Len(alg.ranges) = 2
    /\ Len(alg.out) = 2
    /\ ~Before(NormalizeDate(alg.to), Today(alg.clock))
    /\ \E i \in 1..2 : Before(alg.from, alg.ranges[i].Start)
                         /\ Before(alg.ranges[i].End, alg.out[2].Start)

\* C3: FindGaps never returns a range that contains today or a later day,
\* whatever `to` is, and returns no range when `from` is today or later.
C3_GapsBeforeToday ==
    alg.op = "gaps" =>
        /\ \A i \in 1..Len(alg.out) :
              /\ Before(alg.out[i].End, Today(alg.clock))
              /\ Before(alg.out[i].Start, Today(alg.clock))
        /\ ~Before(NormalizeDate(alg.from), Today(alg.clock)) => alg.out = <<>>

\* FindGaps was asked for a window that ends after today and returned a gap
\* that ends yesterday
C3_Witness ==
    /\ alg.op = "gaps"
    /\ After(NormalizeDate(alg.to), Today(alg.clock))
    /\ alg.out # <<>>
    /\ alg.out[Len(alg.out)].End = AddDate(Today(alg.clock), -1)

\* The permutations of a list
Perms(q) ==
    { [i \in 1..Len(q) |-> q[p[i]]] : p \in Permutations(1..Len(q)) }

\* C5: MergeRanges is idempotent and gives the same result for every
\* permutation of its input, also when ranges share a start day.
C5_MergeIdempotentAnyOrder ==
    alg.op = "merged" =>
        /\ MergeRanges(alg.out) = {alg.out}
        /\ \A q \in Perms(alg.ranges) : MergeRanges(q) = {alg.out}

\* MergeRanges has merged two ranges that start on the same day and end on
\* different days
C5_Witness ==
    /\ alg.op = "merged"
    /\ Len(alg.ranges) = 2
    /\ alg.ranges[1].Start = alg.ranges[2].Start
    /\ alg.ranges[1].End # alg.ranges[2].End
    /\ Len(alg.out) = 1

\* The days a list of ranges covers
DaysCovered(ranges) ==
    { d \in (-1)..(MaxDay + 1) : CoverCount(ranges, DayStart(d)) > 0 }

\* C6: MergeRanges returns a list that covers the same days as its input, is
\* sorted by start and has no two ranges that overlap or are adjacent.
C6_MergeMinimal ==
    alg.op = "merged" =>
        /\ DaysCovered(alg.out) = DaysCovered(alg.ranges)
        /\ \A i \in 1..(Len(alg.out) - 1) :
              After(alg.out[i + 1].Start, AddDate(alg.out[i].End, 1))
        /\ \A i \in 1..Len(alg.out) : ~After(alg.out[i].Start, alg.out[i].End)

\* MergeRanges has joined two adjacent ranges into one
C6_Witness ==
    /\ alg.op = "merged"
    /\ Len(alg.ranges) = 2
    /\ alg.ranges[2].Start = AddDate(alg.ranges[1].End, 1)
    /\ alg.out = <<DateRange(alg.ranges[1].Start, alg.ranges[2].End)>>

(***************************************************************************)
(* Properties of the cache store                                           *)
(***************************************************************************)
Range(q) == { q[i] : i \in 1..Len(q) }

\* The cached range lists of all sources
AllRangeLists(c) ==
    {c.ZevData.CachedRanges}
    \cup { c.SensorData.CachedRanges[id] : id \in DOMAIN c.SensorData.CachedRanges }

\* The readings the cache holds, each with the day key it is stored under
StoredZev(c) ==
    UNION { UNION { { <<k, id, p>> : p \in Range(c.ZevData.Data[k][id]) } :
                    id \in DOMAIN c.ZevData.Data[k] } :
            k \in DOMAIN c.ZevData.Data }

StoredSensor(c) ==
    UNION { UNION { { <<k, id, p>> : p \in Range(c.SensorData.Data[id][k]) } :
                    k \in DOMAIN c.SensorData.Data[id] } :
            id \in DOMAIN c.SensorData.Data }

Stored(c) == StoredZev(c) \cup StoredSensor(c)

\* The readings handed to the direct Store call, as <<sensorID, point>>
Given ==
    IF src[1] = "zev"
    THEN UNION { { <<api.given[i].SensorID, p>> : p \in Range(api.given[i].Data) } :
                 i \in 1..Len(api.given) }
    ELSE { <<src[2], p>> : p \in Range(api.given) }

\* C2: no reading dated today or later is stored and no cached range of any
\* source contains today or a later day, after any sequence of Store,
\* MarkCached and fetcher calls.
C2_TodayNeverCached ==
    /\ \A e \in Stored(cache) :
          /\ Before(NormalizeDate(TimeOf(e[3])), Today(now))
          /\ Before(KeyToDate(e[1]), Today(now))
    /\ \A ranges \in AllRangeLists(cache) : \A i \in 1..Len(ranges) :
          Before(ranges[i].End, Today(now))

\* A fetch over a window that includes today has returned, MarkCached was
\* called with an upper bound of today or later, and Store was handed readings
\* of which it kept none
C2_Witness ==
    /\ call.pc = "done" /\ ~call.err /\ call.includestoday
    /\ call.reqs # <<>>
    /\ api.clipped
    /\ SourceRanges(cache, src[1], src[2]) # <<>>
    /\ api.given # <<>>
    /\ \A g \in Given : \A e \in Stored(cache) : e[3] # g[2]

\* Store was handed a reading of the first slot of today with a UTC timestamp
\* and has kept it, under the key of yesterday
C2_UTCReadingOfTodayStored ==
    /\ api.op = "store"
    /\ \E e \in Stored(cache) :
          /\ ZoneOf(e[3]) = UtcBehind
          /\ TimeOf(e[3]) = Today(now)
          /\ KeyToDate(e[1]) = AddDate(Today(now), -1)

\* A list in merged form
MergedForm(ranges) ==
    /\ \A i \in 1..Len(ranges) : ~After(ranges[i].Start, ranges[i].End)
    /\ \A i \in 1..(Len(ranges) - 1) :
          After(ranges[i + 1].Start, AddDate(ranges[i].End, 1))

\* C4: after any sequence of MarkCached calls every source's range list is in
\* merged form: Start <= End, sorted, consecutive ranges at least one uncached
\* day apart.
C4_RangesMerged == \A ranges \in AllRangeLists(cache) : MergedForm(ranges)

\* MarkCached calls have left two ranges with an uncached day between them
C4_Witness ==
    /\ Len(SourceRanges(cache, src[1], src[2])) = 2
    /\ api.clipped

\* The number of times x occurs in q
Count(q, x) == Cardinality({ i \in 1..Len(q) : q[i] = x })

SameBag(a, b) ==
    /\ Len(a) = Len(b)
    /\ \A x \in Range(a) \cup Range(b) : Count(a, x) = Count(b, x)

\* C7: readings dated before today, stored into an empty cache and retrieved
\* over a range that covers their days, come back exactly as given for each
\* sensor: none lost, none added, none duplicated.
C7_StoreRetrieveRoundTrip ==
    ( /\ api.op = "retrieve"
      /\ api.given # <<>>
      /\ \A g \in Given :
            /\ Before(NormalizeDate(TimeOf(g[2])), Today(now))
            /\ ~Before(NormalizeDate(TimeOf(g[2])), NormalizeDate(api.from))
            /\ ~After(NormalizeDate(TimeOf(g[2])), NormalizeDate(api.to)) )
    => IF src[1] = "zev"
       THEN /\ DOMAIN api.ret = { g[1] : g \in Given }
            /\ \A id \in DOMAIN api.ret :
                  SameBag(api.ret[id], ConcatSensor(api.given, id, 1))
       ELSE SameBag(api.ret, api.given)

\* Two readings of two different days were stored and a retrieval over both
\* days has returned them
C7_Witness ==
    /\ api.op = "retrieve"
    /\ Cardinality(Given) = 2
    /\ Cardinality({ NormalizeDate(TimeOf(g[2])) : g \in Given }) = 2
    /\ \A g \in Given :
          /\ Before(NormalizeDate(TimeOf(g[2])), Today(now))
          /\ ~Before(NormalizeDate(TimeOf(g[2])), NormalizeDate(api.from))
          /\ ~After(NormalizeDate(TimeOf(g[2])), NormalizeDate(api.to))
    /\ IF src[1] = "zev"
       THEN \A g \in Given : g[1] \in DOMAIN api.ret /\ g[2] \in Range(api.ret[g[1]])
       ELSE \A g \in Given : g[2] \in Range(api.ret)

(***************************************************************************)
(* Properties of the caching fetcher                                       *)
(***************************************************************************)
\* Day d lies in one of the ranges
DayCached(ranges, d) == \E i \in 1..Len(ranges) : Contains(ranges[i], d)

\* The days an upstream request covers
RequestDays(r) == { NormalizeDate(x) : x \in r.from..r.to }

\* C8: an upstream request for past days (a request of the gap loop) covers
\* only days that were in no cached range of the source when the call started,
\* and no day that is marked cached at the time of the request.
C8_GapRequestsUncached ==
    \A i \in 1..Len(call.reqs) :
        ~call.reqs[i].isToday =>
            \A d \in RequestDays(call.reqs[i]) :
                /\ ~DayCached(call.startRanges, d)
                /\ ~DayCached(call.reqs[i].cached, d)

\* A call whose window holds a cached day between two uncached ones has
\* requested the two uncached days separately
C8_Witness ==
    /\ call.pc = "done" /\ ~call.err
    /\ Len(call.startRanges) = 1
    /\ Len(call.reqs) >= 2
    /\ ~call.reqs[1].isToday /\ ~call.reqs[2].isToday
    /\ Before(NormalizeDate(call.reqs[1].to), call.startRanges[1].Start)
    /\ After(call.reqs[2].from, call.startRanges[1].End)

\* The readings of a fetcher result or response, as <<sensorID, point>>
ReadingsOf(kind, sensorID, data) ==
    IF kind = "zev"
    THEN UNION { { <<data[i].SensorID, p>> : p \in Range(data[i].Data) } :
                 i \in 1..Len(data) }
    ELSE { <<sensorID, p>> : p \in Range(data) }

ResultReadings(c) ==
    IF c.kind = "zev"
    THEN UNION { { <<id, p>> : p \in Range(c.result[id]) } : id \in DOMAIN c.result }
    ELSE { <<c.sensorID, p>> : p \in Range(c.result) }

\* The window of the call includes the day the call was made
WindowIncludesToday(c) ==
    /\ ~After(NormalizeDate(c.from), c.startDay)
    /\ ~Before(NormalizeDate(c.to), c.startDay)

\* C9: a successful call whose window includes today has issued an upstream
\* request for today, its result includes the readings that request returned,
\* and the cache neither holds a reading of the current day nor a range that
\* contains it.
C9_TodayFetchedNotCached ==
    (call.pc = "done" /\ ~call.err /\ WindowIncludesToday(call)) =>
        /\ \E i \in 1..Len(call.reqs) :
              /\ call.reqs[i].isToday
              /\ call.reqs[i].from = call.startDay
              /\ call.reqs[i].to = EndOfDay(call.startDay)
        /\ ReadingsOf(call.kind, call.sensorID, call.todayData) \subseteq ResultReadings(call)
        /\ \A e \in Stored(cache) : Before(NormalizeDate(TimeOf(e[3])), Today(now))
        /\ \A ranges \in AllRangeLists(cache) : ~DayCached(ranges, Today(now))

\* Every past day of the window was cached when the call started, the only
\* request is the one for today, and its readings are in the result
C9_Witness ==
    /\ call.pc = "done" /\ ~call.err /\ WindowIncludesToday(call)
    /\ Before(NormalizeDate(call.from), call.startDay)
    /\ \A d \in Days : (~Before(DayStart(d), NormalizeDate(call.from))
                          /\ Before(DayStart(d), call.startDay))
                        => DayCached(call.startRanges, DayStart(d))
    /\ Len(call.reqs) = 1 /\ call.reqs[1].isToday
    /\ call.todayData # <<>>
    /\ ReadingsOf(call.kind, call.sensorID, call.todayData) # {}
    /\ ReadingsOf(call.kind, call.sensorID, call.todayData) \subseteq ResultReadings(call)

\* C10: after a successful fetch for [from, to] the gap query for the same
\* source and window, made on the day of the fetch, returns no ranges.
C10_NoGapsAfterFetch ==
    (call.pc = "done" /\ ~call.err /\ Today(now) = call.startDay) =>
        FindGaps(SourceRanges(cache, call.kind, call.sensorID),
                 call.from, call.to, now) = <<>>

\* A fetch that had two gaps to fill has returned on the day it started
C10_Witness ==
    /\ call.pc = "done" /\ ~call.err /\ Today(now) = call.startDay
    /\ Len(call.reqs) >= 2
    /\ ~call.reqs[1].isToday /\ ~call.reqs[2].isToday
    /\ SourceRanges(cache, call.kind, call.sensorID) # <<>>

(***************************************************************************)
(* Error handling of the fetcher and of Analyze                            *)
(***************************************************************************)
C11_Step ==
    \* the step on which an upstream fetch fails ends the call with the error
    \* and no data; the failed request is the last one issued
    /\ (~call.err /\ call'.err) =>
          /\ call'.pc = "done"
          /\ call'.result = <<>>
          /\ Len(call'.reqs) = Len(call.reqs) + 1
    \* after the failure the call issues no request, and it has issued the
    \* failed request once
    /\ call.err =>
          /\ call.pc = "done"
          /\ call'.reqs = call.reqs \/ call' = IdleCall
          /\ Count(call.reqs, call.reqs[Len(call.reqs)]) = 1
    \* Analyze returns the error of a failed fetch and no statistics, and
    \* fetches nothing more
    /\ (an.err # "upstream" /\ an'.err = "upstream") => an'.pc = "done"
    /\ an.err = "upstream" =>
          /\ an.low = NoStats /\ an.high = NoStats
          /\ an.pc \in {"done", "idle"}
          /\ an'.fetches = an.fetches

\* C11: a failed upstream fetch (gap or today) ends the fetcher call with the
\* error and no data, with no further request and no retry, and Analyze
\* returns the error with no statistics.
C11_FetchErrorAborts == [][C11_Step]_vars

\* A call has returned an error from its second or a later upstream request
C11_Witness ==
    /\ call.pc = "done" /\ call.err
    /\ Len(call.reqs) >= 2
    /\ call.result = <<>>

\* Analyze has returned the error of a failed battery fetch
C11_AnalyzeWitness ==
    /\ an.pc = "done" /\ an.err = "upstream"
    /\ Len(an.fetches) > 2

\* The results mergeZevData / mergeSensorData may give for the readings of a call
MergedReadings(c) ==
    IF c.kind = "zev" THEN mergeZevData(c.allData) ELSE mergeSensorData(c.allData)

\* C12: a call whose upstream fetches succeeded and whose save of the cache
\* file failed returns the merged readings and no error.
C12_SaveFailureNotFatal ==
    (call.pc = "done" /\ call.save = "failed") =>
        /\ ~call.err
        /\ call.result \in MergedReadings(call)
        /\ ReadingsOf(call.kind, call.sensorID, call.todayData) \subseteq ResultReadings(call)

\* A call that fetched a gap and today has returned readings although the
\* save failed; the file still holds the snapshot of before the call
C12_Witness ==
    /\ call.pc = "done" /\ call.save = "failed" /\ ~call.err
    /\ Len(call.reqs) >= 2
    /\ ResultReadings(call) # {}
    /\ disk # cache

C13_Step ==
    \* the file changes, or a save is attempted, only on the step that ends a
    \* call, after the gap loop is through and if a gap was fetched
    /\ (disk' # disk \/ (call'.save # call.save /\ call'.save # "none")) =>
          /\ call.pc \in {"loop", "finish"} /\ call'.pc = "done"
          /\ call.gaps = <<>>
          /\ call.cacheModified
          /\ \E i \in 1..Len(call.reqs) : ~call.reqs[i].isToday
          /\ call'.save \in {"ok", "failed"}
          /\ disk' = IF call'.save = "ok" THEN cache ELSE disk
    \* a call that has saved does nothing but return
    /\ call.save # "none" => call.pc = "done" /\ (call' = call \/ call' = IdleCall)

\* C13: within one fetcher call the cache is saved at most once, only after
\* every gap of the call was fetched, stored and marked, only if a gap was
\* fetched, and never between two gap fetches.
C13_SaveOncePerCall == [][C13_Step]_vars

\* A call that filled two gaps has written the cache file once, at its end
C13_Witness ==
    /\ call.pc = "done" /\ call.save = "ok"
    /\ Len(call.reqs) >= 2
    /\ ~call.reqs[1].isToday /\ ~call.reqs[2].isToday
    /\ disk = cache

\* The points are in ascending order of time and no two have the same time
StrictlyAscending(points) ==
    \A i \in 1..(Len(points) - 1) : Before(TimeOf(points[i]), TimeOf(points[i + 1]))

\* C14: the readings a fetcher call returns are, for each sensor, sorted
\* ascending by timestamp with no two readings of the same timestamp, also
\* when upstream responses supply the same boundary sample twice.
C14_SortedNoDuplicates ==
    (call.pc = "done" /\ ~call.err) =>
        IF call.kind = "zev"
        THEN \A id \in DOMAIN call.result : StrictlyAscending(call.result[id])
        ELSE StrictlyAscending(call.result)

\* The same, for the battery dataset only
C14_BatterySortedNoDuplicates ==
    (call.pc = "done" /\ ~call.err /\ call.kind = "sensor") =>
        StrictlyAscending(call.result)

\* The readings are in ascending order of time, equal times allowed
C14_Sorted ==
    (call.pc = "done" /\ ~call.err) =>
        \A id \in (IF call.kind = "zev" THEN DOMAIN call.result ELSE {call.sensorID}) :
            LET points == IF call.kind = "zev" THEN call.result[id] ELSE call.result
            IN  \A i \in 1..(Len(points) - 1) :
                    ~After(TimeOf(points[i]), TimeOf(points[i + 1]))

(***************************************************************************)
(* Properties of the cache file                                            *)
(***************************************************************************)
\* C15: at every step of Save, crashes and failures included, the file at the
\* cache path is the complete previous snapshot or the complete new one (or
\* absent, if there was none before); a partial snapshot is never at the path.
C15_SaveAtomic ==
    LET file == fs.files[cachePath]
    IN  /\ file.exists => Complete(file)
        /\ file = fs.prev \/ file = File(fs.snap, Chunks)
        /\ fs.pc \in {"create", "encode", "close"} => file = fs.prev

\* A process died while it was writing a second snapshot: the temporary file
\* is partial, the cache file is the first snapshot
C15_Witness ==
    /\ fs.pc = "dead"
    /\ fs.files[tmpPath].exists /\ ~Complete(fs.files[tmpPath]) /\ fs.files[tmpPath].written > 0
    /\ Complete(fs.files[cachePath])
    /\ fs.files[cachePath].snap # fs.snap
    /\ fs.load.op = "none"

\* C16: Load of a readable cache file returns an error and no cache when the
\* SmID stored in the file differs from a non-empty expected SmID, and
\* returns the stored cache, unchecked, when the expected SmID is empty.
C16_LoadChecksIdentity ==
    (fs.load.op = "load" /\ Complete(fs.load.file) /\ fs.load.openOk) =>
        LET stored == fs.load.file.snap
            res == fs.load.res
        IN  /\ (fs.load.smID # "" /\ stored.SmID # fs.load.smID) =>
                  res.err = "mismatch" /\ "cache" \notin DOMAIN res
            /\ (fs.load.smID = "" \/ stored.SmID = fs.load.smID) =>
                  res.err = "" /\ res.cache = stored.cache /\ res.SmID = stored.SmID

\* A file with cached ranges of one site was loaded for the other site and
\* refused
C16_Witness ==
    /\ fs.load.op = "load" /\ Complete(fs.load.file) /\ fs.load.openOk
    /\ fs.load.smID # "" /\ fs.load.file.snap.SmID # fs.load.smID
    /\ fs.load.file.snap.cache # NewCache
    /\ fs.load.res.err = "mismatch"
    /\ fs.pc = "dead"

\* A file with cached ranges was loaded with no expected site and returned
C16_WitnessUnchecked ==
    /\ fs.load.op = "load" /\ fs.load.smID = ""
    /\ Complete(fs.load.file) /\ fs.load.file.snap.cache # NewCache
    /\ fs.load.res.err = "" /\ cache = fs.load.file.snap.cache

(***************************************************************************)
(* The fetcher with caching disabled                                       *)
(***************************************************************************)
C17_Step ==
    ~cc.enabled =>
        \* the cache, its ranges and the cache file stay as they are
        /\ cache = NewCache /\ cache' = cache
        /\ disk' = disk /\ fs' = fs
        \* a call is one request to the upstream client for the window given,
        \* and returns what the client returns
        /\ (call.pc = "idle" /\ call'.pc # "idle") =>
              /\ call'.pc = "done"
              /\ Len(call'.reqs) = 1
              /\ call'.reqs[1].from = call'.from /\ call'.reqs[1].to = call'.to
              /\ \/ call'.err /\ call'.result = <<>>
                 \/ /\ ~call'.err
                    /\ call'.result = ClientGet(call'.kind, call'.sensorID,
                                                call'.from, call'.to, now)
        /\ call.pc = "done" => (call' = call \/ call' = IdleCall)

\* C17: with caching disabled every call is passed to the upstream client for
\* exactly the window given and its result returned unchanged; the cache, its
\* ranges and the cache file are neither read nor modified.
C17_DisabledPassesThrough == [][C17_Step]_vars

\* A call has returned readings of a day that the cache file holds as cached,
\* with other values
C17_Witness ==
    /\ ~cc.enabled
    /\ call.pc = "done" /\ ~call.err /\ call.result # <<>>
    /\ call.from = DayStart(0) /\ call.to > call.from
    /\ Complete(fs.files[cachePath])
    /\ fs.files[cachePath].snap.cache # NewCache
    /\ cache = NewCache

(***************************************************************************)
(* The analyzer's intervals and tariff hours                               *)
(***************************************************************************)
\* C18: the intervals of createIntervals(from, to) are in order, the first
\* starts at from, each ends where the next starts, the last ends at to, all
\* but the last are 900 s long and the last is at most 900 s; from >= to
\* yields no interval.
C18_IntervalsTileWindow ==
    alg.op = "intervals" =>
        LET out == alg.intervals
            n == Len(out)
        IN  /\ alg.from >= alg.to => n = 0
            /\ alg.from < alg.to =>
                  /\ n >= 1
                  /\ out[1].Start = alg.from
                  /\ out[n].End = alg.to
                  /\ \A i \in 1..n : out[i].Start < out[i].End
                  /\ \A i \in 1..(n - 1) :
                        /\ out[i].End = out[i + 1].Start
                        /\ out[i].End - out[i].Start = IntervalSeconds
                  /\ out[n].End - out[n].Start <= IntervalSeconds

\* A window of several intervals whose last one is cut short at to
C18_Witness ==
    /\ alg.op = "intervals"
    /\ Len(alg.intervals) >= 3
    /\ alg.intervals[Len(alg.intervals)].End
          - alg.intervals[Len(alg.intervals)].Start < IntervalSeconds
    /\ alg.from % IntervalSeconds # 0

\* A window with from >= to
C18_WitnessEmpty ==
    /\ alg.op = "intervals"
    /\ alg.from > alg.to
    /\ alg.intervals = <<>>

TariffA == [StartHour |-> 21, EndHour |-> 6]
TariffB == [StartHour |-> 6, EndHour |-> 22]

\* C20: for every hour and window, isLowTariffHour(h) is (h >= start or
\* h < end) when start > end, and (h >= start and h < end) otherwise; with
\* {21, 6} hour 23 is low and hour 10 high, with {6, 22} hour 5 is high and
\* hour 10 low.
C20_TariffHours ==
    /\ alg.op = "tariff" =>
          LET h == alg.hour
              start == alg.LowTariff.StartHour
              end == alg.LowTariff.EndHour
          IN  /\ start > end => (alg.low <=> (h >= start \/ h < end))
              /\ start <= end => (alg.low <=> (h >= start /\ h < end))
              /\ (alg.LowTariff = TariffA /\ h = 23) => alg.low
              /\ (alg.LowTariff = TariffA /\ h = 10) => ~alg.low
              /\ (alg.LowTariff = TariffB /\ h = 5) => ~alg.low
              /\ (alg.LowTariff = TariffB /\ h = 10) => alg.low

\* An hour after midnight in a window that spans midnight
C20_Witness ==
    /\ alg.op = "tariff"
    /\ alg.LowTariff = TariffA
    /\ alg.hour = 3
    /\ alg.low

(***************************************************************************)
(* The two tariff statistics of an analysis                                *)
(***************************************************************************)
\* The totals of the statistics and the interval fields they are summed from
TotalFields ==
    { <<"GridImport", "GridImport">>, <<"GridExport", "GridExport">>,
      <<"Production", "InverterGeneratedPower">>,
      <<"BatteryCharge", "BatteryCharge">>, <<"BatteryDischarge", "BatteryDischarge">> }

\* The sum of a field over the intervals from i on whose start hour is in the
\* tariffs given (TRUE for low, FALSE for high)
RECURSIVE IntervalSum(_, _, _, _, _)
IntervalSum(intervals, LowTariff, field, tariffs, i) ==
    IF i > Len(intervals) THEN 0
    ELSE (IF isLowTariffHour(LowTariff, Hour(intervals[i].Start)) \in tariffs
          THEN intervals[i][field] ELSE 0)
         + IntervalSum(intervals, LowTariff, field, tariffs, i + 1)

\* C19: every interval is accumulated in exactly one of the two statistics,
\* the low-tariff one iff its start hour is a low-tariff hour, so the low and
\* high totals of grid import, grid export, production, battery charge and
\* battery discharge add up to the sums over all intervals.
C19_TariffsPartitionIntervals ==
    (an.pc = "done" /\ an.err = "") =>
        \A f \in TotalFields :
            /\ an.low[f[1]] = IntervalSum(an.intervals, an.config.LowTariff, f[2], {TRUE}, 1)
            /\ an.high[f[1]] = IntervalSum(an.intervals, an.config.LowTariff, f[2], {FALSE}, 1)
            /\ an.low[f[1]] + an.high[f[1]]
                   = IntervalSum(an.intervals, an.config.LowTariff, f[2], BOOLEAN, 1)

\* An analysis with energy in a low-tariff interval and in a high-tariff one
C19_Witness ==
    /\ an.pc = "done" /\ an.err = ""
    /\ \E i, j \in 1..Len(an.intervals) :
          /\ isLowTariffHour(an.config.LowTariff, Hour(an.intervals[i].Start))
          /\ ~isLowTariffHour(an.config.LowTariff, Hour(an.intervals[j].Start))
          /\ an.intervals[i].GridImport + an.intervals[i].InverterGeneratedPower > 0
          /\ an.intervals[j].GridImport + an.intervals[j].InverterGeneratedPower > 0
    /\ an.low.GridImport + an.low.Production > 0
    /\ an.high.GridImport + an.high.Production > 0

(***************************************************************************)
(* The consumers' totals and source amounts                                *)
(***************************************************************************)
\* The two statistics sets of a finished analysis, each with its tariff
StatsSets == { <<an.low, TRUE>>, <<an.high, FALSE>> }

\* The interval is one of the tariff's
InTariff(interval, lowTariff) ==
    isLowTariffHour(an.config.LowTariff, Hour(interval.Start)) = lowTariff

TotalInput(interval) == interval.GridImport + interval.InverterGeneratedPower

\* A consumer's usage in an interval, 0 when it has none
UsageIn(interval, id) == MapGet(interval.ConsumerUsage, id, 0)

RECURSIVE FracSum(_)
FracSum(fracs) ==
    IF fracs = <<>> THEN FracZero ELSE FracAdd(Head(fracs), FracSum(Tail(fracs)))

SourcesSum(consumer) ==
    FracAdd(consumer.Sources.FromInverter,
            FracAdd(consumer.Sources.FromBattery, consumer.Sources.FromGrid))

\* C21: in every statistics set of calculateStats each consumer's Total,
\* Shared Usage included, equals FromInverter + FromBattery + FromGrid, also
\* when the battery contribution was clamped and when the inverter consumed.
C21_TotalIsSumOfSources ==
    (an.pc = "done" /\ an.err = "") =>
        \A s \in StatsSets : \A id \in DOMAIN s[1].Consumers :
            SourcesSum(s[1].Consumers[id]) = Frac(s[1].Consumers[id].Total, 1)

\* Both intervals are low tariff: one with the battery contribution clamped,
\* one with a consuming inverter, and an interval without input
C21_Witness ==
    /\ an.pc = "done" /\ an.err = ""
    /\ InTariff(an.intervals[1], TRUE) /\ InTariff(an.intervals[2], TRUE)
    /\ an.intervals[1].InverterGeneratedPower = 500
    /\ an.intervals[1].BatteryDischarge = 1000
    /\ an.intervals[2].InverterGeneratedPower < 0
    /\ TotalInput(an.intervals[2]) > 0
    /\ an.low.Consumers["c1"].Total = 200
    /\ an.low.Consumers["shared"].Total > 0

\* The usage of a consumer that the intervals of a tariff hold, counting the
\* positive usages of the intervals that satisfy counted
UsageCounted(id, lowTariff, counted(_)) ==
    FracSum([i \in 1..Len(an.intervals) |->
               IF /\ InTariff(an.intervals[i], lowTariff)
                  /\ counted(an.intervals[i])
                  /\ UsageIn(an.intervals[i], id) > 0
               THEN Frac(UsageIn(an.intervals[i], id), 1) ELSE FracZero])

AnyInterval(interval) == TRUE
HasInput(interval) == TotalInput(interval) > 0

\* C22 as stated: the usage of an interval with totalInput <= 0 is added to
\* the consumer's Total as well, so Total is the positive usage of all the
\* intervals of the tariff.
C22_UnattributedUsageCounted ==
    (an.pc = "done" /\ an.err = "") =>
        \A s \in StatsSets : \A id \in DOMAIN s[1].Consumers :
            Frac(s[1].Consumers[id].Total, 1) = UsageCounted(id, s[2], AnyInterval)

\* C22, amended: an interval with totalInput <= 0 adds nothing to any
\* consumer, neither to Total nor to a source amount: Total is the positive
\* usage of the intervals with totalInput > 0, and a tariff whose intervals all
\* have totalInput <= 0 leaves every consumer at zero.
C22_NoInputNothingCounted ==
    (an.pc = "done" /\ an.err = "") =>
        \A s \in StatsSets : \A id \in DOMAIN s[1].Consumers :
            /\ Frac(s[1].Consumers[id].Total, 1) = UsageCounted(id, s[2], HasInput)
            /\ (\A i \in 1..Len(an.intervals) :
                    InTariff(an.intervals[i], s[2]) => ~HasInput(an.intervals[i]))
                => s[1].Consumers[id] = NewConsumerStats

\* A consumer has usage in an interval without input and in one with input
C22_Witness ==
    /\ an.pc = "done" /\ an.err = ""
    /\ InTariff(an.intervals[1], TRUE) /\ InTariff(an.intervals[2], TRUE)
    /\ TotalInput(an.intervals[1]) <= 0
    /\ UsageIn(an.intervals[1], "c1") = 100
    /\ TotalInput(an.intervals[2]) > 0
    /\ UsageIn(an.intervals[2], "c1") = 100
    /\ an.low.Consumers["c1"].Total = 100

\* The efficiency in hundredths, the default when the configured value is 0
EfficiencyUsed ==
    IF an.config.ZEV.InverterEfficiency = 0 THEN DefaultEfficiency
    ELSE an.config.ZEV.InverterEfficiency

\* batteryDischarge * efficiency exceeds inverterNet >= 0; in hundredths of a Wh
ExceedsInverter(interval) ==
    /\ interval.InverterGeneratedPower >= 0
    /\ interval.BatteryDischarge * EfficiencyUsed
         > interval.InverterGeneratedPower * EfficiencyScale

\* The contributions of an interval in hundredths of a Wh
Contribution(kind, interval) ==
    CASE kind = "battery" ->
            IF ExceedsInverter(interval)
            THEN interval.InverterGeneratedPower * EfficiencyScale
            ELSE interval.BatteryDischarge * EfficiencyUsed
      [] kind = "solar" ->
            IF ExceedsInverter(interval) THEN 0
            ELSE interval.InverterGeneratedPower * EfficiencyScale
                 - interval.BatteryDischarge * EfficiencyUsed
      [] kind = "grid" -> interval.GridImport * EfficiencyScale
      [] kind = "grid+solar" ->
            interval.GridImport * EfficiencyScale
            + interval.InverterGeneratedPower * EfficiencyScale
            - interval.BatteryDischarge * EfficiencyUsed
      [] kind = "none" -> 0
      [] kind = "all" -> TotalInput(interval) * EfficiencyScale

\* An interval of the tariff whose usage is distributed
Contributing(interval, lowTariff) ==
    InTariff(interval, lowTariff) /\ TotalInput(interval) > 0

\* The sum of usage * share over the contributing intervals of a tariff, the
\* share being the contribution of the kind divided by totalInput
ShareOfUsage(id, lowTariff, kind) ==
    FracSum([i \in 1..Len(an.intervals) |->
               IF /\ Contributing(an.intervals[i], lowTariff)
                  /\ UsageIn(an.intervals[i], id) > 0
               THEN Frac(UsageIn(an.intervals[i], id) * Contribution(kind, an.intervals[i]),
                         TotalInput(an.intervals[i]) * EfficiencyScale)
               ELSE FracZero])

\* The interval of the example: shares solar 0.5, battery 0.1, grid 0.4
ExampleShares(interval) ==
    /\ interval.GridImport = 400
    /\ interval.InverterGeneratedPower = 600
    /\ interval.BatteryDischarge = 200
    /\ an.config.ZEV.InverterEfficiency = 50
    /\ UsageIn(interval, "c1") = 100 /\ UsageIn(interval, "c2") = 50

Amounts(solar, battery, grid) ==
    [FromInverter |-> Frac(solar, 1), FromBattery |-> Frac(battery, 1),
     FromGrid |-> Frac(grid, 1)]

\* C23: where the inverter does not consume (inverterNet >= 0, totalInput > 0)
\* a consumer with positive usage gets usage * solarShare, usage * batteryShare
\* and usage * gridShare added to its source amounts and usage to its Total,
\* the shares being solarContribution, batteryAC and gridImport over
\* totalInput; usages 100 and 50 with shares 0.5, 0.1, 0.4 give {50, 10, 40}
\* and {25, 5, 20}.
C23_SharesOfUsage ==
    (an.pc = "done" /\ an.err = "") =>
        \A s \in StatsSets :
            /\ (\A i \in 1..Len(an.intervals) :
                    Contributing(an.intervals[i], s[2])
                    => an.intervals[i].InverterGeneratedPower >= 0)
               => \A id \in DOMAIN s[1].Consumers :
                    /\ s[1].Consumers[id].Sources.FromInverter = ShareOfUsage(id, s[2], "solar")
                    /\ s[1].Consumers[id].Sources.FromBattery = ShareOfUsage(id, s[2], "battery")
                    /\ s[1].Consumers[id].Sources.FromGrid = ShareOfUsage(id, s[2], "grid")
                    /\ Frac(s[1].Consumers[id].Total, 1) = ShareOfUsage(id, s[2], "all")
            /\ (/\ ExampleShares(an.intervals[1])
                /\ InTariff(an.intervals[1], s[2]) /\ ~InTariff(an.intervals[2], s[2]))
               => /\ s[1].Consumers["c1"].Sources = Amounts(50, 10, 40)
                  /\ s[1].Consumers["c1"].Total = 100
                  /\ s[1].Consumers["c2"].Sources = Amounts(25, 5, 20)
                  /\ s[1].Consumers["c2"].Total = 50

\* The interval of the example is the only one of the high tariff
C23_Witness ==
    /\ an.pc = "done" /\ an.err = ""
    /\ ExampleShares(an.intervals[1])
    /\ InTariff(an.intervals[1], FALSE) /\ InTariff(an.intervals[2], TRUE)
    /\ an.high.Consumers["c1"].Sources.FromBattery = Frac(10, 1)
    /\ an.high.Consumers["shared"].Total > 0

\* C24: when inverterNet >= 0 and batteryDischarge * efficiency exceeds
\* inverterNet, the battery AC contribution is inverterNet and the solar
\* contribution 0, the efficiency being 0.93 when the configured value is 0;
\* inverterNet 500, discharge 1000, efficiency 0.93 give battery 500, solar 0.
C24_BatteryClamped ==
    (an.pc = "done" /\ an.err = "") =>
        \A s \in StatsSets :
            /\ (\A i \in 1..Len(an.intervals) :
                    Contributing(an.intervals[i], s[2]) => ExceedsInverter(an.intervals[i]))
               => \A id \in DOMAIN s[1].Consumers :
                    /\ s[1].Consumers[id].Sources.FromInverter = FracZero
                    /\ s[1].Consumers[id].Sources.FromBattery =
                          FracSum([i \in 1..Len(an.intervals) |->
                             IF /\ Contributing(an.intervals[i], s[2])
                                /\ UsageIn(an.intervals[i], id) > 0
                             THEN Frac(UsageIn(an.intervals[i], id)
                                          * an.intervals[i].InverterGeneratedPower,
                                       TotalInput(an.intervals[i]))
                             ELSE FracZero])
            \* the example, without grid import or export and without negative
            \* usage: the consumers share the battery's 500 Wh and nothing else
            /\ (/\ an.config.ZEV.InverterEfficiency = 0
                /\ UsageIn(an.intervals[1], "c1") >= 0
                /\ an.intervals[1].InverterGeneratedPower = 500
                /\ an.intervals[1].BatteryDischarge = 1000
                /\ an.intervals[1].GridImport = 0 /\ an.intervals[1].GridExport = 0
                /\ InTariff(an.intervals[1], s[2]) /\ ~InTariff(an.intervals[2], s[2]))
               => /\ FracSum([n \in 1..3 |->
                        s[1].Consumers[<<"c1", "c2", "shared">>[n]].Sources.FromBattery])
                        = Frac(500, 1)
                  /\ \A id \in DOMAIN s[1].Consumers :
                        /\ s[1].Consumers[id].Sources.FromInverter = FracZero
                        /\ s[1].Consumers[id].Sources.FromGrid = FracZero

\* The example with the default efficiency, alone in the high tariff
C24_Witness ==
    /\ an.pc = "done" /\ an.err = ""
    /\ an.config.ZEV.InverterEfficiency = 0
    /\ an.intervals[1].InverterGeneratedPower = 500
    /\ an.intervals[1].BatteryDischarge = 1000
    /\ an.intervals[1].GridImport = 0 /\ an.intervals[1].GridExport = 0
    /\ InTariff(an.intervals[1], FALSE) /\ InTariff(an.intervals[2], TRUE)
    /\ an.high.Consumers["c1"].Sources.FromBattery = Frac(100, 1)

\* C27: where the inverter consumes (inverterNet < 0, totalInput > 0) a
\* consumer other than Shared Usage gets nothing added to FromInverter and
\* usage * (gridShare + inverterShare) to FromGrid, and Shared Usage gets
\* usage * inverterShare, a negative amount, in FromInverter and
\* usage * gridShare in FromGrid.
C27_InverterConsuming ==
    (an.pc = "done" /\ an.err = "") =>
        \A s \in StatsSets :
            (\A i \in 1..Len(an.intervals) :
                Contributing(an.intervals[i], s[2])
                => an.intervals[i].InverterGeneratedPower < 0)
            => /\ \A id \in DOMAIN s[1].Consumers \ {"shared"} :
                    /\ s[1].Consumers[id].Sources.FromInverter = FracZero
                    /\ s[1].Consumers[id].Sources.FromGrid
                          = ShareOfUsage(id, s[2], "grid+solar")
               /\ s[1].Consumers["shared"].Sources.FromInverter
                     = ShareOfUsage("shared", s[2], "solar")
               /\ s[1].Consumers["shared"].Sources.FromInverter[1] <= 0
               /\ s[1].Consumers["shared"].Sources.FromGrid
                     = ShareOfUsage("shared", s[2], "grid")

\* Both intervals are low tariff and have a consuming inverter and grid import;
\* a consumer and Shared Usage have usage
C27_Witness ==
    /\ an.pc = "done" /\ an.err = ""
    /\ \A i \in 1..2 :
          /\ InTariff(an.intervals[i], TRUE)
          /\ an.intervals[i].InverterGeneratedPower < 0
          /\ TotalInput(an.intervals[i]) > 0
    /\ an.low.Consumers["c1"].Total = 200
    /\ an.low.Consumers["c1"].Sources.FromGrid[1] > 0
    /\ an.low.Consumers["shared"].Sources.FromInverter[1] < 0

(***************************************************************************)
(* Conservation of the intervals' energy                                   *)
(***************************************************************************)
\* The sum of all consumers' Total, Shared Usage included, over both tariffs
TotalsOfConsumers ==
    MapSum([id \in DOMAIN an.low.Consumers |-> an.low.Consumers[id].Total])
    + MapSum([id \in DOMAIN an.high.Consumers |-> an.high.Consumers[id].Total])

\* The usage the consumer sensors measured in an interval
MeasuredUsage(interval) ==
    MapSum([id \in DOMAIN interval.ConsumerUsage \ {"shared"} |->
              interval.ConsumerUsage[id]])

\* No usage below zero, and usage and export within the input
Balanced(interval) ==
    /\ \A id \in DOMAIN interval.ConsumerUsage : interval.ConsumerUsage[id] >= 0
    /\ MeasuredUsage(interval) + interval.GridExport <= TotalInput(interval)

\* C25 as stated: the consumers' totals of both tariffs add up to the sum of
\* totalInput over all intervals.
C25_TotalsEqualInput ==
    (an.pc = "done" /\ an.err = "") =>
        TotalsOfConsumers
          = MapSum([i \in 1..Len(an.intervals) |-> TotalInput(an.intervals[i])])

\* C25, amended: the consumers' totals of both tariffs add up to the sum of
\* totalInput - gridExport over the intervals with totalInput > 0, provided
\* each of these is balanced.
C25_TotalsEqualInputLessExport ==
    (/\ an.pc = "done" /\ an.err = ""
     /\ \A i \in 1..Len(an.intervals) :
           TotalInput(an.intervals[i]) > 0 => Balanced(an.intervals[i]))
    => TotalsOfConsumers
         = MapSum([i \in 1..Len(an.intervals) |->
                     IF TotalInput(an.intervals[i]) > 0
                     THEN TotalInput(an.intervals[i]) - an.intervals[i].GridExport
                     ELSE 0])

\* An analysis of a producing inverter with grid export and consumer usage
C25_Witness ==
    /\ an.pc = "done" /\ an.err = ""
    /\ \E i \in 1..Len(an.intervals) :
          /\ TotalInput(an.intervals[i]) > 0
          /\ an.intervals[i].GridExport > 0
          /\ UsageIn(an.intervals[i], "c1") > 0
          /\ UsageIn(an.intervals[i], "shared") > 0
    /\ TotalsOfConsumers > 0

(***************************************************************************)
(* Configuration errors                                                    *)
(***************************************************************************)
InvalidEfficiency(config) ==
    /\ config.ZEV.InverterEfficiency # 0
    /\ (config.ZEV.InverterEfficiency <= 0
        \/ config.ZEV.InverterEfficiency > EfficiencyScale)

EmptyRequiredID(config) == config.ZEV.GridMeterID = ""

\* Analyze has returned the configuration error and has fetched nothing
FailedFast ==
    /\ an.pc \in {"done", "idle"}
    /\ an.err = "config"
    /\ an.fetches = <<>>
    /\ an.low = NoStats /\ an.high = NoStats

\* C26: a configuration error (an inverterEfficiency outside (0,1] other than
\* the unset value 0, or an empty required ID) makes Analyze return an error
\* before the sensor catalog, the aggregated readings or the battery readings
\* are fetched.
C26_ConfigErrorsFailFast ==
    (an.calls > 0 /\ (InvalidEfficiency(an.config) \/ EmptyRequiredID(an.config)))
    => FailedFast

\* The efficiency half of C26 alone
C26_InvalidEfficiencyFailsFast ==
    (an.calls > 0 /\ InvalidEfficiency(an.config)) => FailedFast

\* Analyze has returned statistics for a configuration without grid meter ID
C26_EmptyIDAnalyzed ==
    /\ EmptyRequiredID(an.config)
    /\ an.pc = "done" /\ an.err = ""
    /\ an.fetches = <<"sensors", "zev", "b1">>

(***************************************************************************)
(* The collectors and implausible samples                                  *)
(***************************************************************************)
PurchaseDelta(samples, i) ==
    samples[i].CurrentEnergyPurchaseTariff1 - samples[i - 1].CurrentEnergyPurchaseTariff1

DeliveryDelta(samples, i) ==
    samples[i].CurrentEnergyDeliveryTariff1 - samples[i - 1].CurrentEnergyDeliveryTariff1

\* The samples with a predecessor that lie in the interval
SamplesIn(interval, samples) ==
    { i \in 2..Len(samples) :
        samples[i].CreatedAt >= interval.Start /\ samples[i].CreatedAt < interval.End }

\* Both deltas of an inverter sample lie in [0, 10000] Wh
InverterPlausible(samples, i) ==
    /\ DeliveryDelta(samples, i) >= 0
    /\ DeliveryDelta(samples, i) <= MaxProductionReadingWh
    /\ PurchaseDelta(samples, i) >= 0
    /\ PurchaseDelta(samples, i) <= MaxProductionReadingWh

\* C28: an inverter sample adds (delivery delta - purchase delta) to its
\* interval's net production exactly when both deltas lie in [0, 10000] Wh and
\* nothing otherwise; the net may be negative; delivery delta 1100 and
\* purchase delta 500 give a net of 600.
C28_InverterNet ==
    (alg.op = "collect" /\ alg.id = "p1") =>
        \A k \in 1..Len(alg.intervals) :
            LET in == SamplesIn(alg.intervals[k], alg.samples)
                plausible == { i \in in : InverterPlausible(alg.samples, i) }
            IN  /\ alg.intervals[k].InverterGeneratedPower
                     = MapSum([i \in plausible |->
                                 DeliveryDelta(alg.samples, i) - PurchaseDelta(alg.samples, i)])
                /\ (\E i \in in :
                       /\ in = {i}
                       /\ DeliveryDelta(alg.samples, i) = 1100
                       /\ PurchaseDelta(alg.samples, i) = 500)
                   => alg.intervals[k].InverterGeneratedPower = 600

\* The first interval holds the sample of the example; the second one a
\* sample with a purchase delta above the bound and one with a negative net
C28_Witness ==
    /\ alg.op = "collect" /\ alg.id = "p1"
    /\ Len(alg.intervals) = 2
    /\ alg.intervals[1].InverterGeneratedPower = 600
    /\ PurchaseDelta(alg.samples, 3) > MaxProductionReadingWh
    /\ DeliveryDelta(alg.samples, 3) = 100
    /\ SamplesIn(alg.intervals[2], alg.samples) = {3, 4}
    /\ alg.intervals[2].InverterGeneratedPower = -500

\* A grid sample with the reset signature or a delta above the bound
GridAnomaly(samples, i) ==
    \/ (samples[i - 1].CurrentEnergyDeliveryTariff1 = 0
        /\ samples[i].CurrentEnergyDeliveryTariff1 # 0)
    \/ PurchaseDelta(samples, i) > MaxGridReadingDiffWh
    \/ DeliveryDelta(samples, i) > MaxGridReadingDiffWh

\* The usage delta of a consumer sample
UsageDelta(samples, i) ==
    IF alg.invert THEN DeliveryDelta(samples, i) ELSE PurchaseDelta(samples, i)

\* C30: a sample with an out-of-bounds delta or the reset signature makes no
\* collector return an error; it adds nothing to any interval, and the later
\* samples of the sensor are still processed: each interval holds the deltas
\* of its other samples, and a consumer with no other sample in an interval
\* has no usage entry there.
C30_AnomaliesSkipped ==
    alg.op = "collect" =>
        /\ alg.err = ""
        /\ \A k \in 1..Len(alg.intervals) :
              LET in == SamplesIn(alg.intervals[k], alg.samples)
                  grid == { i \in in : ~GridAnomaly(alg.samples, i) }
                  consumer == { i \in in : UsageDelta(alg.samples, i) <= MaxConsumerReadingWh }
              IN  /\ alg.intervals[k].GridImport =
                        IF alg.id = "g1"
                        THEN MapSum([i \in grid |-> PurchaseDelta(alg.samples, i)]) ELSE 0
                  /\ alg.intervals[k].GridExport =
                        IF alg.id = "g1"
                        THEN MapSum([i \in grid |-> DeliveryDelta(alg.samples, i)]) ELSE 0
                  /\ alg.intervals[k].ConsumerUsage =
                        IF alg.id = "c1" /\ consumer # {}
                        THEN [id \in {"c1"} |->
                                MapSum([i \in consumer |-> UsageDelta(alg.samples, i)])]
                        ELSE EmptyMap
                  /\ alg.id # "p1" => alg.intervals[k].InverterGeneratedPower = 0

\* A grid sample above the bound is followed in its interval by a sample that
\* is counted
C30_Witness ==
    /\ alg.op = "collect" /\ alg.id = "g1"
    /\ Len(alg.intervals) = 2
    /\ SamplesIn(alg.intervals[2], alg.samples) = {3, 4}
    /\ PurchaseDelta(alg.samples, 3) > MaxGridReadingDiffWh
    /\ ~GridAnomaly(alg.samples, 4)
    /\ alg.intervals[2].GridImport = 500
    /\ alg.intervals[2].GridExport = 1100

\* A consumer sample above the bound is followed by one that is counted, and a
\* grid sample with the reset signature is skipped
C30_WitnessReset ==
    /\ alg.op = "collect" /\ alg.id = "g1"
    /\ alg.samples[1].CurrentEnergyDeliveryTariff1 = 0
    /\ DeliveryDelta(alg.samples, 2) = 1100
    /\ alg.intervals[1].GridImport = 0

(***************************************************************************)
(* Shared usage                                                            *)
(***************************************************************************)
\* (gridImport + inverterNet) - (consumer usage + gridExport + inverter
\* internal consumption) of an interval
SharedUsageOf(interval) ==
    (interval.GridImport + interval.InverterGeneratedPower)
    - (MapSum(interval.ConsumerUsage) + interval.GridExport
       + interval.InverterPowerConsumption)

C29_Step ==
    (an.pc = "battery" /\ an'.pc = "done") =>
        /\ Len(an'.intervals) = Len(an.intervals)
        /\ \A k \in 1..Len(an.intervals) :
              IF SharedUsageOf(an.intervals[k]) > 0
              THEN /\ DOMAIN an'.intervals[k].ConsumerUsage
                        = DOMAIN an.intervals[k].ConsumerUsage \cup {"shared"}
                   /\ an'.intervals[k].ConsumerUsage["shared"]
                        = SharedUsageOf(an.intervals[k])
                   /\ \A id \in DOMAIN an.intervals[k].ConsumerUsage \ {"shared"} :
                        an'.intervals[k].ConsumerUsage[id]
                          = an.intervals[k].ConsumerUsage[id]
              ELSE an'.intervals[k].ConsumerUsage = an.intervals[k].ConsumerUsage

\* C29: per interval sharedUsage = (gridImport + inverterNet) - (sum of
\* consumer usage + gridExport + inverterInternalConsumption); when positive
\* it becomes the interval's usage of the Shared Usage consumer, and when zero
\* or negative no usage value of the interval is changed.
C29_SharedUsageRecorded == [][C29_Step]_vars

\* The first interval has shared usage, with export taken off; the second,
\* whose consumer used more than the input, has none
C29_Witness ==
    /\ an.pc = "done" /\ an.err = ""
    /\ an.intervals[1].GridExport > 0
    /\ UsageIn(an.intervals[1], "c1") = 100
    /\ UsageIn(an.intervals[1], "shared")
          = TotalInput(an.intervals[1]) - 100 - UsageIn(an.intervals[1], "c2")
            - an.intervals[1].GridExport
    /\ UsageIn(an.intervals[1], "shared") > 0
    /\ "shared" \notin DOMAIN an.intervals[2].ConsumerUsage
    /\ MapSum(an.intervals[2].ConsumerUsage) > TotalInput(an.intervals[2])

(***************************************************************************)
(* Repeated Analyze calls                                                  *)
(***************************************************************************)
\* The intervals and the statistics of Analyze(from, to) on a newly
\* constructed analyzer, against the steady upstream
FreshAnalysis(config, from, to) ==
    LET created == createIntervals(<<>>, from, to)
        data == SteadyZevData(from, to)
        grid == collectGridData(created, config, data)
        inverter == collectInverterData(grid, config, data)
        consumer == collectConsumerData(inverter, SteadySensors, config, data)
        battery == collectBattery(consumer, SteadySensors, "b1",
                                  SteadyBatteryData(from, to))
        low == calculateStats(battery, config, TRUE)
        high == calculateStats(low.intervals, config, FALSE)
    IN  [low |-> low.stats, high |-> high.stats, intervals |-> high.intervals]

\* C31: the intervals and the sensor lookup of Analyze are scoped to the
\* invocation: every Analyze call on an analyzer, the first and the later
\* ones, returns the statistics that the same call on a newly constructed
\* analyzer returns, and leaves no interval or usage of an earlier call.
C31_AnalyzeScopedToCall ==
    (an.pc = "done" /\ an.err = "") =>
        /\ an.low = FreshAnalysis(an.config, an.from, an.to).low
        /\ an.high = FreshAnalysis(an.config, an.from, an.to).high
        /\ an.intervals = FreshAnalysis(an.config, an.from, an.to).intervals

\* The first call on an analyzer does return what C31 says
C31_FirstCallFresh ==
    (an.pc = "done" /\ an.err = "" /\ an.calls = 1) =>
        /\ an.low = FreshAnalysis(an.config, an.from, an.to).low
        /\ an.high = FreshAnalysis(an.config, an.from, an.to).high

\* A second call for the window of the first has returned other statistics
C31_SecondCallDiffers ==
    /\ an.pc = "done" /\ an.err = "" /\ an.calls = 2
    /\ Len(an.intervals) = 2 * Len(createIntervals(<<>>, an.from, an.to))
    /\ an.low # FreshAnalysis(an.config, an.from, an.to).low

(***************************************************************************)
(* The battery collector                                                   *)
(***************************************************************************)
\* The readings, from the first one given on, that lie in the interval
ReadingsIn(interval, readings, first) ==
    { i \in first..Len(readings) :
        readings[i].Date >= interval.Start /\ readings[i].Date < interval.End }

\* Charge and discharge of a reading, swapped when the inversion flag is set
ChargeOf(reading) ==
    IF alg.invert THEN reading.BatteryDischargeWh ELSE reading.BatteryChargeWh

DischargeOf(reading) ==
    IF alg.invert THEN reading.BatteryChargeWh ELSE reading.BatteryDischargeWh

\* The battery totals of every interval are those of the readings in it,
\* counted from the first one given on
BatteryTotalsFrom(first) ==
    \A k \in 1..Len(alg.intervals) :
        LET in == ReadingsIn(alg.intervals[k], alg.readings, first)
        IN  /\ alg.intervals[k].BatteryCharge
                 = MapSum([i \in in |-> ChargeOf(alg.readings[i])])
            /\ alg.intervals[k].BatteryDischarge
                 = MapSum([i \in in |-> DischargeOf(alg.readings[i])])

\* C32: every reading of a battery sensor whose timestamp falls inside an
\* interval adds its charge and discharge to the interval's battery totals,
\* swapped when the sensor's inversion flag is set.
C32_EveryBatteryReadingAdded ==
    alg.op = "battery" => BatteryTotalsFrom(1)

\* What the collector does: the readings after the first are added
C32_LaterBatteryReadingsAdded ==
    alg.op = "battery" => BatteryTotalsFrom(2)

\* The first reading lies in the first interval and is not in its totals
C32_FirstReadingDropped ==
    /\ alg.op = "battery" /\ ~alg.invert
    /\ Len(alg.intervals) >= 1
    /\ 1 \in ReadingsIn(alg.intervals[1], alg.readings, 1)
    /\ alg.readings[1].BatteryChargeWh = 100
    /\ alg.readings[2].BatteryChargeWh = 0
    /\ alg.intervals[1].BatteryCharge = 0

(***************************************************************************)
(* The fetcher against a direct upstream fetch                             *)
(***************************************************************************)
\* The readings a direct upstream fetch of the call's window returns at `clock`
DirectFetch(c, clock) ==
    ReadingsOf(c.kind, c.sensorID,
               IF c.kind = "zev" THEN ClientGetZevData(c.from, c.to, clock)
               ELSE ClientGetSensorData(c.sensorID, c.from, c.to, clock))

\* The result of the call is that of a direct fetch made at some moment
\* between the start of the day the call began on and now
SameAsDirectFetch(c) ==
    \E clock \in c.startDay..now : ResultReadings(c) = DirectFetch(c, clock)

\* The window of the call starts after the day the call was made
StartsAfterToday(c) == After(NormalizeDate(c.from), c.startDay)

\* C33: for any sequence of calls with from <= to, a successful call of the
\* cache-backed fetcher returns for each sensor the same set of readings as a
\* direct upstream fetch of the same window.
C33_SameAsDirectFetch ==
    (call.pc = "done" /\ ~call.err /\ call.from <= call.to) => SameAsDirectFetch(call)

\* The same for the windows that do not start after today
C33_SameAsDirectFetchFromToday ==
    (call.pc = "done" /\ ~call.err /\ call.from <= call.to /\ ~StartsAfterToday(call))
        => SameAsDirectFetch(call)

\* A later call for a window of two past days, one of them cached before, has
\* returned the readings of both
C33_Witness ==
    /\ call.pc = "done" /\ ~call.err /\ call.from < NormalizeDate(call.to)
    /\ Before(NormalizeDate(call.to), call.startDay)
    /\ call.startRanges # <<>>
    /\ Len(call.reqs) = 1
    /\ SameAsDirectFetch(call)
    /\ \E e \in ResultReadings(call) : NormalizeDate(TimeOf(e[2])) = NormalizeDate(call.from)
    /\ \E e \in ResultReadings(call) : NormalizeDate(TimeOf(e[2])) = NormalizeDate(call.to)

\* A call for a window that starts tomorrow has returned readings of today
C33_FutureWindowReturnsToday ==
    /\ call.pc = "done" /\ ~call.err /\ call.from <= call.to
    /\ StartsAfterToday(call)
    /\ ResultReadings(call) # {}
    /\ DirectFetch(call, now) = {}

(***************************************************************************)
(* Requests for today                                                      *)
(***************************************************************************)
\* The call has asked the upstream for today's data
RequestedToday(c) == \E i \in 1..Len(c.reqs) : c.reqs[i].isToday

\* The readings of the result dated on the day the call was made
ResultOfToday(c) ==
    { e \in ResultReadings(c) : NormalizeDate(TimeOf(e[2])) = c.startDay }

\* C35: the fetcher requests today's data only when today lies inside the
\* window [from, to]; a call whose window starts after today issues no upstream
\* request and returns no readings dated today.
C35_TodayOnlyInsideWindow ==
    call.pc = "done" =>
        /\ RequestedToday(call) => WindowIncludesToday(call)
        /\ StartsAfterToday(call) => (call.reqs = <<>> /\ ResultOfToday(call) = {})

\* What the fetcher does: today's data is requested only when the window does
\* not end before today, wherever it starts
C35_TodayOnlyWhenWindowEndsLater ==
    call.pc = "done" =>
        (RequestedToday(call) => ~Before(NormalizeDate(call.to), call.startDay))

\* A call for tomorrow alone has asked for today's data and returned it
C35_FutureWindowRequestsToday ==
    /\ call.pc = "done" /\ ~call.err
    /\ call.from <= call.to /\ StartsAfterToday(call)
    /\ Len(call.reqs) = 1 /\ call.reqs[1].isToday
    /\ call.reqs[1].from = call.startDay
    /\ ResultOfToday(call) # {}

(***************************************************************************)
(* A call that aborts after it has filled gaps                             *)
(***************************************************************************)
\* The readings the cache c holds, as <<sensorID, point>>
StoredReadings(c) == { <<e[2], e[3]>> : e \in Stored(c) }

\* The days of the requests of the call cl that succeeded before its last one
FilledDays(cl) ==
    UNION { RequestDays(cl.reqs[i]) : i \in 1..(Len(cl.reqs) - 1) }

\* The cache c holds the ranges and the readings of the gaps the call cl filled
KeepsFilledGaps(c, cl, clock) ==
    \A i \in 1..(Len(cl.reqs) - 1) :
        LET r == cl.reqs[i]
        IN  /\ \A d \in RequestDays(r) : DayCached(SourceRanges(c, cl.kind, cl.sensorID), d)
            /\ ReadingsOf(cl.kind, cl.sensorID,
                          IF cl.kind = "zev" THEN ClientGetZevData(r.from, r.to, clock)
                          ELSE ClientGetSensorData(cl.sensorID, r.from, r.to, clock))
                  \subseteq StoredReadings(c)

\* No call for the same source made from `clock` on, whatever its window, has
\* a gap that holds a day the call cl filled
NotRefetched(c, cl, clock) ==
    \A f \in Days, t \in Days, later \in clock..MaxTick :
        LET gaps == FindGaps(SourceRanges(c, cl.kind, cl.sensorID),
                             DayStart(f), EndOfDay(DayStart(t)), later)
        IN  \A i \in 1..Len(gaps) : \A d \in FilledDays(cl) : ~Contains(gaps[i], d)

\* The step ends the call with an error
Aborts == call.pc # "done" /\ call'.pc = "done" /\ call'.err

C34_Step ==
    /\ Aborts =>
          /\ cache' = cache
          /\ KeepsFilledGaps(cache', call', now')
          /\ NotRefetched(cache', call', now')
    \* the cache file is written only by the step that ends a call successfully
    /\ disk' # disk => (call'.pc = "done" /\ ~call'.err)

\* C34: when a call aborts on an upstream error after earlier gaps of the call
\* succeeded, the in-memory cache keeps those gaps' readings and ranges, the
\* cache file is not changed by the call, and a later call in the same process
\* does not fetch those gaps again.
C34_AbortKeepsFilledGaps == [][C34_Step]_vars

\* A call has aborted after it filled a gap: the cache holds the gap's day and
\* readings, the cache file does not
C34_Witness ==
    /\ call.pc = "done" /\ call.err
    /\ Len(call.reqs) >= 2
    /\ FilledDays(call) # {}
    /\ KeepsFilledGaps(cache, call, now)
    /\ NotRefetched(cache, call, now)
    /\ \E d \in FilledDays(call) :
          /\ DayCached(SourceRanges(cache, call.kind, call.sensorID), d)
          /\ ~DayCached(SourceRanges(disk, call.kind, call.sensorID), d)
    /\ StoredReadings(cache) # {} /\ StoredReadings(disk) = {}

(***************************************************************************)
(* The store after any sequence of fetcher calls                           *)
(***************************************************************************)
\* The positions of the store: a day key, a sensor and an index of its list
StoredAt(c) ==
    UNION { UNION { { <<k, id, i>> : i \in 1..Len(c.ZevData.Data[k][id]) } :
                    id \in DOMAIN c.ZevData.Data[k] } :
            k \in DOMAIN c.ZevData.Data }
    \cup UNION { UNION { { <<k, id, i>> : i \in 1..Len(c.SensorData.Data[id][k]) } :
                         k \in DOMAIN c.SensorData.Data[id] } :
                 id \in DOMAIN c.SensorData.Data }

\* The reading at a position of the store
ReadingAt(c, at) ==
    IF at[2] \in ZevSensors THEN c.ZevData.Data[at[1]][at[2]][at[3]]
    ELSE c.SensorData.Data[at[2]][at[1]][at[3]]

\* C36: after any sequence of cache-enabled calls against an upstream that
\* returns only readings inside the requested window, the cache never holds
\* two readings with the same sensor and timestamp.
C36_NoDuplicateReadings ==
    \A a \in StoredAt(cache), b \in StoredAt(cache) :
        (a[2] = b[2] /\ TimeOf(ReadingAt(cache, a)) = TimeOf(ReadingAt(cache, b))) => a = b

\* On a later day a call whose window overlaps the cached days has filled a
\* gap next to them: the store holds the readings of two days, each once
C36_Witness ==
    /\ call.pc = "done" /\ ~call.err
    /\ call.startDay > DayStart(1)
    /\ \E d \in RequestDays([from |-> call.from, to |-> call.to]) :
          DayCached(call.startRanges, d)
    /\ \E i \in 1..Len(call.reqs) : ~call.reqs[i].isToday
    /\ Cardinality({ at[1] : at \in StoredAt(cache) }) >= 2
    /\ \A a \in StoredAt(cache), b \in StoredAt(cache) :
          (a[2] = b[2] /\ TimeOf(ReadingAt(cache, a)) = TimeOf(ReadingAt(cache, b))) => a = b

\* The requests of the client for a gap, as calculateChunks cuts it
GapChunks(c) == calculateChunks(c.gap.Start, EndOfDay(c.gap.End))

\* A call has filled a gap of more than chunkDays days with two requests of
\* the client: the sample at the instant where the first request ends and the
\* second begins lies in the store twice
C36_ChunkBoundaryStoredTwice ==
    /\ call.pc \in {"mark", "loop", "finish", "done"} /\ ~call.err
    /\ cc.client = "exact"
    /\ Len(GapChunks(call)) = 2
    /\ GapChunks(call)[1].End = GapChunks(call)[2].Start
    /\ \E a \in StoredAt(cache), b \in StoredAt(cache) :
          /\ a # b /\ a[2] = b[2]
          /\ TimeOf(ReadingAt(cache, a)) = GapChunks(call)[1].End
          /\ TimeOf(ReadingAt(cache, b)) = GapChunks(call)[1].End

\* C37: in the same setting, after every call, returned or aborted, every day
\* that holds stored readings for a source is covered by that source's cached
\* ranges.
C37_StoredDaysCovered ==
    call.pc \in {"idle", "done"} =>
      \A at \in StoredAt(cache) :
        DayCached(SourceRanges(cache, IF at[2] \in ZevSensors THEN "zev" ELSE "sensor", at[2]),
                  KeyToDate(at[1]))

\* A call has aborted after it filled a gap of two days: both days hold
\* readings and both are in the cached ranges
C37_Witness ==
    /\ call.pc = "done" /\ call.err
    /\ Cardinality(FilledDays(call)) >= 2
    /\ \A d \in FilledDays(call) :
          /\ \E at \in StoredAt(cache) : KeyToDate(at[1]) = d
          /\ DayCached(SourceRanges(cache, call.kind, call.sensorID), d)

(***************************************************************************)
(* Readings whose timestamps are not in the local zone                     *)
(***************************************************************************)
\* Every stored reading lies under the key of its local day
IndexedByLocalDay(c) ==
    \A e \in Stored(c) : KeyToDate(e[1]) = NormalizeDate(TimeOf(e[3]))

\* The readings the Retrieve call returned, as <<sensorID, point>>
Retrieved ==
    IF src[1] = "zev"
    THEN UNION { { <<id, p>> : p \in Range(api.ret[id]) } : id \in DOMAIN api.ret }
    ELSE { <<src[2], p>> : p \in Range(api.ret) }

\* The stored readings of the local days from..to
StoredWithin(c, from, to) ==
    { r \in StoredReadings(c) :
        /\ ~Before(NormalizeDate(TimeOf(r[2])), NormalizeDate(from))
        /\ ~After(NormalizeDate(TimeOf(r[2])), NormalizeDate(to)) }

\* C40: Store indexes a reading under the calendar day that the fetch window
\* and Retrieve use, so Retrieve(from, to) returns every stored reading of the
\* local days from..to, also when the reading's timestamp carries another time
\* zone than the local one.
C40_IndexedByLocalDay ==
    /\ IndexedByLocalDay(cache)
    /\ api.op = "retrieve" => StoredWithin(cache, api.from, api.to) \subseteq Retrieved

\* The same for the readings whose timestamps are in the local zone
C40_LocalReadingsIndexed ==
    (\A e \in Stored(cache) : ZoneOf(e[3]) = 0) =>
        /\ IndexedByLocalDay(cache)
        /\ api.op = "retrieve" => StoredWithin(cache, api.from, api.to) \subseteq Retrieved

\* A reading of the first slot of a local day with a UTC timestamp lies under
\* the key of the day before, and Retrieve for its local day has not returned it
C40_UTCReadingMissed ==
    /\ api.op = "retrieve" /\ api.from = api.to
    /\ \E e \in Stored(cache) :
          /\ ZoneOf(e[3]) = UtcBehind
          /\ NormalizeDate(TimeOf(e[3])) = api.from
          /\ KeyToDate(e[1]) = AddDate(api.from, -1)
          /\ <<e[2], e[3]>> \notin Retrieved

(***************************************************************************)
(* Configured sensors that the catalog does not hold                       *)
(***************************************************************************)
\* The configured consumer and battery IDs that are not in the sensor map
MissingSensors ==
    ({ an.config.ZEV.ConsumerIDs[n] : n \in 1..Len(an.config.ZEV.ConsumerIDs) }
     \cup { an.config.ZEV.BatterySystemIDs[n] :
              n \in 1..Len(an.config.ZEV.BatterySystemIDs) })
    \ (DOMAIN an.sensorMap)

\* C38: Analyze returns statistics or an error and never faults, also when a
\* configured consumer or battery ID is absent from the sensor catalog while
\* readings for that ID are present.
C38_AnalyzeNeverFaults == an.pc # "fault"

\* Analyze faults only when a configured consumer or battery is not in the
\* sensor map
C38_FaultsOnlyOnMissingSensor ==
    an.pc = "fault" => MissingSensors # {}

\* Analyze has faulted in the collectors: the sensors were loaded, a configured
\* consumer or battery is not among them, and no statistics were computed
C38_FaultOnMissingSensor ==
    /\ an.pc = "fault"
    /\ an.sensorMap # EmptyMap
    /\ MissingSensors # {}
    /\ an.err = ""
    /\ "nil" \in DOMAIN an.low

(***************************************************************************)
(* The sign of the attributed amounts                                      *)
(***************************************************************************)
\* Grid import, battery discharge and the consumers' usage of every interval
\* are not negative
NonNegativeReadings ==
    \A i \in 1..Len(an.intervals) :
        /\ an.intervals[i].GridImport >= 0
        /\ an.intervals[i].BatteryDischarge >= 0
        /\ \A id \in DOMAIN an.intervals[i].ConsumerUsage \ {"shared"} :
              an.intervals[i].ConsumerUsage[id] >= 0

\* The battery's AC contribution of the interval is within its total input
BatteryWithinInput(interval) ==
    interval.BatteryDischarge * EfficiencyUsed <= TotalInput(interval) * EfficiencyScale

\* C39: for every consumer other than Shared Usage the accumulated
\* FromInverter, FromBattery and FromGrid are each non-negative whenever grid
\* import, battery discharge and consumer usage of every interval are
\* non-negative, intervals with a negative inverter net included.
C39_SourcesNonNegative ==
    (an.pc = "done" /\ an.err = "" /\ NonNegativeReadings) =>
        \A s \in StatsSets : \A id \in DOMAIN s[1].Consumers \ {"shared"} :
            /\ s[1].Consumers[id].Sources.FromInverter[1] >= 0
            /\ s[1].Consumers[id].Sources.FromBattery[1] >= 0
            /\ s[1].Consumers[id].Sources.FromGrid[1] >= 0

\* What holds: FromInverter and FromBattery are never negative, and FromGrid is
\* not where the battery's AC contribution stays within the total input of
\* every interval in which the inverter consumes
C39_NonNegativeWithinInput ==
    (an.pc = "done" /\ an.err = "" /\ NonNegativeReadings) =>
        \A s \in StatsSets : \A id \in DOMAIN s[1].Consumers \ {"shared"} :
            /\ s[1].Consumers[id].Sources.FromInverter[1] >= 0
            /\ s[1].Consumers[id].Sources.FromBattery[1] >= 0
            /\ (\A i \in 1..Len(an.intervals) :
                    an.intervals[i].InverterGeneratedPower < 0
                    => BatteryWithinInput(an.intervals[i]))
               => s[1].Consumers[id].Sources.FromGrid[1] >= 0

\* The inverter consumes 100 Wh while the battery discharges 1000 Wh and the
\* grid delivers 400 Wh: consumer c1 ends with a negative FromGrid
C39_NegativeFromGrid ==
    /\ an.pc = "done" /\ an.err = "" /\ NonNegativeReadings
    /\ an.intervals[1].InverterGeneratedPower = -100
    /\ an.intervals[1].BatteryDischarge = 1000
    /\ an.intervals[1].GridImport = 400
    /\ UsageIn(an.intervals[1], "c1") = 100
    /\ \E s \in StatsSets :
          /\ InTariff(an.intervals[1], s[2])
          /\ s[1].Consumers["c1"].Total >= 100
          /\ s[1].Consumers["c1"].Sources.FromBattery[1] > 0
          /\ s[1].Consumers["c1"].Sources.FromGrid[1] < 0

====
